---- MODULE Spec2Model ----
(***************************************************************************)
(* Model of the risk engine of rrs_core.py: the impact and scoring model   *)
(* (ImpactAssessment, Risk, MitigationAction), the interdependency graph   *)
(* (RiskInterdependencyEngine) and the ranking of a portfolio              *)
(* (RiskPrioritizer); and of the risk store of rrs_database.py             *)
(* (RRSDatabase.store_risk).                                               *)
(*                                                                         *)
(* Python floats are IEEE 754 binary64.  The scores are int() truncations  *)
(* of float expressions, so the float arithmetic is modelled bit-exactly:  *)
(* a float is m * 2^e with m a natural number of at most 53 bits, kept as  *)
(* a little-endian sequence of 15-bit limbs so that every intermediate     *)
(* product stays below 2^31.                                               *)
(***************************************************************************)
EXTENDS Integers, Sequences, FiniteSets, TLC

(***************************************************************************)
(* Natural numbers of arbitrary size: little-endian limbs, no high zero    *)
(* limb, zero is the empty sequence.                                       *)
(***************************************************************************)
LimbBits == 15
LimbBase == 32768
MantissaBits == 53

RECURSIVE Pow2(_)
Pow2(k) == IF k = 0 THEN 1 ELSE 2 * Pow2(k - 1)

RECURSIVE BNorm(_)
BNorm(a) ==
    IF a = <<>> THEN <<>>
    ELSE IF a[Len(a)] = 0 THEN BNorm(SubSeq(a, 1, Len(a) - 1))
    ELSE a

RECURSIVE BFromInt(_)
BFromInt(n) ==
    IF n = 0 THEN <<>>
    ELSE <<n % LimbBase>> \o BFromInt(n \div LimbBase)

RECURSIVE BToInt(_)
BToInt(a) ==
    IF a = <<>> THEN 0
    ELSE a[1] + LimbBase * BToInt(Tail(a))

RECURSIVE BAddC(_, _, _)
BAddC(a, b, c) ==
    IF a = <<>> /\ b = <<>> THEN (IF c = 0 THEN <<>> ELSE <<c>>)
    ELSE LET x == IF a = <<>> THEN 0 ELSE a[1]
             y == IF b = <<>> THEN 0 ELSE b[1]
             t == x + y + c
         IN  <<t % LimbBase>> \o
             BAddC(IF a = <<>> THEN <<>> ELSE Tail(a),
                   IF b = <<>> THEN <<>> ELSE Tail(b),
                   t \div LimbBase)

BAdd(a, b) == BAddC(a, b, 0)

\* a - b - c, for a >= b + c
RECURSIVE BSubC(_, _, _)
BSubC(a, b, c) ==
    IF a = <<>> THEN <<>>
    ELSE LET y == IF b = <<>> THEN 0 ELSE b[1]
             t == a[1] - y - c
         IN  <<IF t < 0 THEN t + LimbBase ELSE t>> \o
             BSubC(Tail(a),
                   IF b = <<>> THEN <<>> ELSE Tail(b),
                   IF t < 0 THEN 1 ELSE 0)

BSub(a, b) == BNorm(BSubC(a, b, 0))

\* a * d + c, for 0 <= d < LimbBase
RECURSIVE BMulSmallC(_, _, _)
BMulSmallC(a, d, c) ==
    IF a = <<>> THEN (IF c = 0 THEN <<>> ELSE <<c>>)
    ELSE LET t == a[1] * d + c
         IN  <<t % LimbBase>> \o BMulSmallC(Tail(a), d, t \div LimbBase)

BMulSmall(a, d) == BNorm(BMulSmallC(a, d, 0))

RECURSIVE BMul(_, _)
BMul(a, b) ==
    IF a = <<>> \/ b = <<>> THEN <<>>
    ELSE LET high == BMul(a, Tail(b))
         IN  BAdd(BMulSmall(a, b[1]),
                  IF high = <<>> THEN <<>> ELSE <<0>> \o high)

\* quotient and remainder of a by d, for 0 < d < LimbBase
RECURSIVE BDivSmallRec(_, _)
BDivSmallRec(a, d) ==
    IF a = <<>> THEN [q |-> <<>>, r |-> 0]
    ELSE LET rest == BDivSmallRec(Tail(a), d)
             cur  == rest.r * LimbBase + a[1]
         IN  [q |-> <<cur \div d>> \o rest.q, r |-> cur % d]

BDivSmall(a, d) ==
    LET qr == BDivSmallRec(a, d) IN [q |-> BNorm(qr.q), r |-> qr.r]

RECURSIVE ZeroLimbs(_)
ZeroLimbs(n) == IF n = 0 THEN <<>> ELSE <<0>> \o ZeroLimbs(n - 1)

\* a * 2^k
BShl(a, k) ==
    IF a = <<>> THEN <<>>
    ELSE ZeroLimbs(k \div LimbBits) \o BMulSmall(a, Pow2(k % LimbBits))

\* floor(a / 2^k)
BShr(a, k) ==
    IF k \div LimbBits >= Len(a) THEN <<>>
    ELSE BDivSmall(SubSeq(a, (k \div LimbBits) + 1, Len(a)),
                   Pow2(k % LimbBits)).q

RECURSIVE IntBitLen(_)
IntBitLen(n) == IF n = 0 THEN 0 ELSE 1 + IntBitLen(n \div 2)

BBitLen(a) ==
    IF a = <<>> THEN 0
    ELSE LimbBits * (Len(a) - 1) + IntBitLen(a[Len(a)])

\* -1, 0 or 1 as a < b, a = b, a > b
RECURSIVE BCmp(_, _)
BCmp(a, b) ==
    IF Len(a) # Len(b) THEN (IF Len(a) < Len(b) THEN -1 ELSE 1)
    ELSE IF a = <<>> THEN 0
    ELSE IF a[Len(a)] # b[Len(b)]
         THEN (IF a[Len(a)] < b[Len(b)] THEN -1 ELSE 1)
    ELSE BCmp(BNorm(SubSeq(a, 1, Len(a) - 1)), BNorm(SubSeq(b, 1, Len(b) - 1)))

BIsOdd(a) == a # <<>> /\ a[1] % 2 = 1

(***************************************************************************)
(* binary64 values: [m, e] stands for m * 2^e, in canonical form (m odd,   *)
(* or m = <<>> and e = 0 for 0.0), so equal values are equal records.      *)
(* Only non-negative finite values in the normal range occur.              *)
(***************************************************************************)
RECURSIVE FloatCanon(_, _)
FloatCanon(m, e) ==
    IF m = <<>> THEN [m |-> <<>>, e |-> 0]
    ELSE IF m[1] = 0 THEN FloatCanon(Tail(m), e + LimbBits)
    ELSE IF m[1] % 2 = 0 THEN FloatCanon(BShr(m, 1), e + 1)
    ELSE [m |-> m, e |-> e]

\* round-to-nearest, ties-to-even, of the exact value m * 2^e
FloatRound(m, e) ==
    LET len == BBitLen(m) IN
    IF len <= MantissaBits THEN FloatCanon(m, e)
    ELSE LET k    == len - MantissaBits
             q    == BShr(m, k)
             rem  == BSub(m, BShl(q, k))
             half == BShl(<<1>>, k - 1)
             c    == BCmp(rem, half)
             up   == c = 1 \/ (c = 0 /\ BIsOdd(q))
         IN  FloatCanon(IF up THEN BAdd(q, <<1>>) ELSE q, e + k)

\* float(n) for a small non-negative int n (exact)
FloatFromInt(n) == FloatCanon(BFromInt(n), 0)

\* the float nearest to a / b for ints a >= 0, b > 0: an int/int true
\* division, and the value of a decimal literal such as 0.15 = 15/100
DivGuardBits == 75
FloatDivInt(a, b) ==
    LET qr == BDivSmall(BShl(BFromInt(a), DivGuardBits), b)
    IN  IF qr.r = 0 THEN FloatRound(qr.q, -DivGuardBits)
        ELSE FloatRound(BAdd(BShl(qr.q, 1), <<1>>), -DivGuardBits - 1)

FloatMul(x, y) == FloatRound(BMul(x.m, y.m), x.e + y.e)

FloatMinExp(x, y) == IF x.e < y.e THEN x.e ELSE y.e

FloatAdd(x, y) ==
    LET e0 == FloatMinExp(x, y)
    IN  FloatRound(BAdd(BShl(x.m, x.e - e0), BShl(y.m, y.e - e0)), e0)

\* x - y for x >= y
FloatSub(x, y) ==
    LET e0 == FloatMinExp(x, y)
    IN  FloatRound(BSub(BShl(x.m, x.e - e0), BShl(y.m, y.e - e0)), e0)

FloatLess(x, y) ==
    LET e0 == FloatMinExp(x, y)
    IN  BCmp(BShl(x.m, x.e - e0), BShl(y.m, y.e - e0)) = -1

\* Python's min(x, y): y only if y < x
FloatMin(x, y) == IF FloatLess(y, x) THEN y ELSE x

\* int(x): truncation of a non-negative float
FloatToInt(x) ==
    IF x.e >= 0 THEN BToInt(BShl(x.m, x.e))
    ELSE BToInt(BShr(x.m, -x.e))


(***************************************************************************)
(* State.                                                                  *)
(*   risk_graph  RiskInterdependencyEngine.risk_graph: a dict in insertion *)
(*               order, as a sequence of [key, deps] entries               *)
(*   frames, path, chains, max_depth                                       *)
(*               the running find_risk_chains call: the stack of traverse  *)
(*               frames, the shared path list, the chains collected so     *)
(*               far, and the max_depth argument (frames = <<>>: no call)  *)
(*   risk        the Risk object under assessment                          *)
(*   ret         the last call: its name, its arguments and the value it   *)
(*               returned (op "traverse": find_risk_chains is running)     *)
(*   risks, now  the list handed to RiskPrioritizer and the clock          *)
(*   risk_appetite_threshold                                               *)
(*               the attribute of the RiskPrioritizer instance in use      *)
(*   db_risks, db_history, db_audit                                        *)
(*               the committed rows of the tables risks, risk_history and  *)
(*               audit_log of the database file                            *)
(*   db_writer   the connection that holds the write lock of the file      *)
(*   calls       the running store_risk call of each user: its position,   *)
(*               its argument, what its SELECT found and the rows written  *)
(*               in its open transaction                                   *)
(*   db_users, db_sessions                                                 *)
(*               the committed rows of the tables users and sessions       *)
(***************************************************************************)
VARIABLES risk_graph, frames, path, chains, max_depth, risk, ret,
          risks, now, risk_appetite_threshold,
          db_risks, db_history, db_audit, db_writer, calls,
          db_users, db_sessions

vars == <<risk_graph, frames, path, chains, max_depth, risk, ret, risks, now,
          risk_appetite_threshold, db_risks, db_history, db_audit, db_writer, calls,
          db_users, db_sessions>>
graphVars == <<risk_graph, frames, path, chains, max_depth>>
portfolioVars == <<risks, now, risk_appetite_threshold>>
storeVars == <<db_risks, db_history, db_audit, db_writer, calls>>
accountVars == <<db_users, db_sessions>>

(***************************************************************************)
(* Bounds and inputs of the graph model.                                   *)
(***************************************************************************)
MaxEdges == 2
RiskIds == {"A", "B", "C"}
DepthInputs == {0, 1, 5}

Float1 == FloatFromInt(1)
Float2 == FloatFromInt(2)
Float10 == FloatFromInt(10)
Float1_5 == FloatDivInt(3, 2)

\* the edges offered to add_dependency: RiskInterdependency objects
EdgeKinds ==
    { [relationship_type |-> "triggers", impact_multiplier |-> Float2],
      [relationship_type |-> "amplifies", impact_multiplier |-> Float1_5] }

RiskInterdependency(source, target, kind) ==
    [source_risk_id    |-> source,
     target_risk_id    |-> target,
     relationship_type |-> kind.relationship_type,
     impact_multiplier |-> kind.impact_multiplier]

BaseImpactInputs == {Float10}

NoCall == [op |-> "none"]

(***************************************************************************)
(* RiskInterdependencyEngine                                               *)
(***************************************************************************)
\* `key in self.risk_graph`
GraphHas(g, key) == \E i \in 1..Len(g) : g[i].key = key

\* `self.risk_graph[key]`
GraphGet(g, key) == g[CHOOSE i \in 1..Len(g) : g[i].key = key].deps

\* GraphAdd that drops a second edge between the same pair
GraphAdd_NoDuplicates(g, dependency) ==
    IF \E i \in 1..Len(g) : \E k \in 1..Len(g[i].deps) :
            /\ g[i].deps[k].source_risk_id = dependency.source_risk_id
            /\ g[i].deps[k].target_risk_id = dependency.target_risk_id
    THEN g
    ELSE LET g1 == IF \A i \in 1..Len(g) : g[i].key # dependency.source_risk_id
                   THEN Append(g, [key |-> dependency.source_risk_id, deps |-> <<>>])
                   ELSE g
         IN  [i \in 1..Len(g1) |->
                IF g1[i].key = dependency.source_risk_id
                THEN [g1[i] EXCEPT !.deps = Append(@, dependency)]
                ELSE g1[i]]

\* the dict after add_dependency: no check of the edge, a new key goes last
GraphAdd(g, dependency) ==
    LET g1 == IF ~GraphHas(g, dependency.source_risk_id)
              THEN Append(g, [key |-> dependency.source_risk_id, deps |-> <<>>])
              ELSE g
    IN  [i \in 1..Len(g1) |->
            IF g1[i].key = dependency.source_risk_id
            THEN [g1[i] EXCEPT !.deps = Append(@, dependency)]
            ELSE g1[i]]

GraphEdgeCount(g) ==
    LET RECURSIVE Count(_)
        Count(i) == IF i > Len(g) THEN 0 ELSE Len(g[i].deps) + Count(i + 1)
    IN  Count(1)

get_downstream_risks(g, risk_id) ==
    IF ~GraphHas(g, risk_id) THEN <<>>
    ELSE [i \in 1..Len(GraphGet(g, risk_id)) |->
             GraphGet(g, risk_id)[i].target_risk_id]

\* the sources, in dict order, once per edge that targets risk_id
get_upstream_risks(g, risk_id) ==
    LET RECURSIVE Deps(_, _)
        Deps(source, deps) ==
            IF deps = <<>> THEN <<>>
            ELSE (IF Head(deps).target_risk_id = risk_id
                  THEN <<source>> ELSE <<>>) \o Deps(source, Tail(deps))
        RECURSIVE Items(_)
        Items(i) ==
            IF i > Len(g) THEN <<>>
            ELSE Deps(g[i].key, g[i].deps) \o Items(i + 1)
    IN  Items(1)

calculate_amplified_impact(g, risk_id, base_impact) ==
    LET upstream == get_upstream_risks(g, risk_id)
        RECURSIVE Deps(_, _)
        Deps(deps, total) ==
            IF deps = <<>> THEN total
            ELSE Deps(Tail(deps),
                      IF Head(deps).target_risk_id = risk_id
                      THEN FloatMul(total, Head(deps).impact_multiplier)
                      ELSE total)
        RECURSIVE Sources(_, _)
        Sources(i, total) ==
            IF i > Len(upstream) THEN total
            ELSE Sources(i + 1,
                         IF GraphHas(g, upstream[i])
                         THEN Deps(GraphGet(g, upstream[i]), total)
                         ELSE total)
    IN  FloatMul(base_impact, Sources(1, Float1))

\* NotInPath without the membership test
NotInPath_NoCheck(next_id, p) == TRUE

\* `next_id not in path`
NotInPath(next_id, p) == \A i \in 1..Len(p) : p[i] # next_id

\* `depth > max_depth`
DepthExceeded(depth, limit) == depth > limit


(***************************************************************************)
(* ImpactAssessment and Risk                                               *)
(***************************************************************************)
LikelihoodLevel == 1..5
ImpactLevel == 1..5
Effectiveness == {"Weak", "Moderate", "Strong"}
ActionStatus == {"Planned", "In Progress", "Completed", "Overdue", "Cancelled"}

\* expected_risk_reduction: Optional[int] = None
None == -1

\* the float literals of the scoring code
Weight_financial == FloatDivInt(40, 100)
Weight_operational == FloatDivInt(25, 100)
Weight_regulatory == FloatDivInt(20, 100)
Weight_reputational == FloatDivInt(15, 100)
Float0_15 == FloatDivInt(15, 100)
Float0_08 == FloatDivInt(8, 100)
Float0_60 == FloatDivInt(60, 100)
Float0_50 == FloatDivInt(50, 100)

ImpactAssessment(financial, operational, regulatory, reputational) ==
    [financial    |-> financial,
     operational  |-> operational,
     regulatory   |-> regulatory,
     reputational |-> reputational]

\* Risk(...): affected_processes and risk_appetite_exceeded keep the
\* dataclass defaults
NewRisk(likelihood, impact, existing_controls, mitigation_actions) ==
    [likelihood             |-> likelihood,
     impact                 |-> impact,
     existing_controls      |-> existing_controls,
     mitigation_actions     |-> mitigation_actions,
     affected_processes     |-> <<>>,
     risk_appetite_exceeded |-> FALSE]

ExistingControl(effectiveness) == [effectiveness |-> effectiveness]

MitigationAction(status, expected_risk_reduction) ==
    [status |-> status, expected_risk_reduction |-> expected_risk_reduction]

\* the weighted sum, added left to right in floats
WeightedImpact(impact) ==
    FloatAdd(FloatAdd(FloatAdd(
        FloatMul(FloatFromInt(impact.financial), Weight_financial),
        FloatMul(FloatFromInt(impact.operational), Weight_operational)),
        FloatMul(FloatFromInt(impact.regulatory), Weight_regulatory)),
        FloatMul(FloatFromInt(impact.reputational), Weight_reputational))

get_overall_score(impact) == FloatToInt(WeightedImpact(impact))

calculate_inherent_risk_score(r) ==
    r.likelihood * get_overall_score(r.impact)

\* sum(1 for c in existing_controls if c.effectiveness == effectiveness)
RECURSIVE CountControls(_, _)
CountControls(controls, effectiveness) ==
    IF controls = <<>> THEN 0
    ELSE (IF Head(controls).effectiveness = effectiveness THEN 1 ELSE 0)
         + CountControls(Tail(controls), effectiveness)

\* ControlReduction with the cap at 0.75
ControlReduction_Cap75(strong_controls, moderate_controls) ==
    FloatMin(FloatDivInt(75, 100),
             FloatAdd(FloatMul(FloatFromInt(strong_controls), Float0_15),
                      FloatMul(FloatFromInt(moderate_controls), Float0_08)))

\* min(0.60, strong_controls * 0.15 + moderate_controls * 0.08)
ControlReduction(strong_controls, moderate_controls) ==
    FloatMin(Float0_60,
             FloatAdd(FloatMul(FloatFromInt(strong_controls), Float0_15),
                      FloatMul(FloatFromInt(moderate_controls), Float0_08)))

\* OneMinus with the sign flipped
OneMinus_Plus(reduction) == FloatAdd(Float1, reduction)

\* 1.0 - reduction
OneMinus(reduction) == FloatSub(Float1, reduction)

IsCompleted(a) == a.status = "Completed"

\* [a for a in mitigation_actions if a.status == ActionStatus.COMPLETED]
CompletedActions(actions) == SelectSeq(actions, IsCompleted)

\* `a.expected_risk_reduction or 0`
OrZero(x) == IF x = None THEN 0 ELSE x

RECURSIVE SumReduction(_)
SumReduction(actions) ==
    IF actions = <<>> THEN 0
    ELSE OrZero(Head(actions).expected_risk_reduction)
         + SumReduction(Tail(actions))

\* ActionReduction with the cap of the control discount
ActionReduction_Cap60(completed_actions) ==
    FloatMin(Float0_60, FloatDivInt(SumReduction(completed_actions), 100))

\* min(0.50, action_reduction), action_reduction = sum(...) / 100
ActionReduction(completed_actions) ==
    FloatMin(Float0_50, FloatDivInt(SumReduction(completed_actions), 100))

ReductionFactor(r) ==
    LET from_controls ==
            IF r.existing_controls # <<>>
            THEN OneMinus(ControlReduction(
                     CountControls(r.existing_controls, "Strong"),
                     CountControls(r.existing_controls, "Moderate")))
            ELSE Float1
        completed_actions == CompletedActions(r.mitigation_actions)
    IN  IF r.mitigation_actions # <<>> /\ completed_actions # <<>>
        THEN FloatMul(from_controls,
                      OneMinus(ActionReduction(completed_actions)))
        ELSE from_controls

calculate_residual_risk_score(r) ==
    FloatToInt(FloatMul(FloatFromInt(calculate_inherent_risk_score(r)),
                        ReductionFactor(r)))

\* RiskLevelOf with strict comparisons
RiskLevelOf_Strict(score) ==
    IF score < 6 THEN "Low"
    ELSE IF score < 12 THEN "Medium"
    ELSE IF score < 18 THEN "High"
    ELSE "Critical"

\* the tier of a residual score
RiskLevelOf(score) ==
    IF score <= 6 THEN "Low"
    ELSE IF score <= 12 THEN "Medium"
    ELSE IF score <= 18 THEN "High"
    ELSE "Critical"

get_risk_level(r) == RiskLevelOf(calculate_residual_risk_score(r))

\* needs_mitigation without the appetite flag
needs_mitigation_ScoreOnly(r) == calculate_residual_risk_score(r) >= 13

\* `score >= 13 or self.risk_appetite_exceeded`
needs_mitigation(r) ==
    calculate_residual_risk_score(r) >= 13 \/ r.risk_appetite_exceeded

Float0 == FloatFromInt(0)
Float100 == FloatFromInt(100)

\* get_mitigation_effectiveness with Cancelled actions left out of the total
get_mitigation_effectiveness_NoCancelled(r) ==
    LET counted == SelectSeq(r.mitigation_actions,
                             LAMBDA a : a.status # "Cancelled")
    IN  IF counted = <<>> THEN Float0
        ELSE FloatMul(FloatDivInt(Len(CompletedActions(r.mitigation_actions)),
                                  Len(counted)),
                      Float100)

\* 0.0 without actions, else (completed / len(mitigation_actions)) * 100
get_mitigation_effectiveness(r) ==
    IF r.mitigation_actions = <<>> THEN Float0
    ELSE FloatMul(FloatDivInt(Len(CompletedActions(r.mitigation_actions)),
                              Len(r.mitigation_actions)),
                  Float100)


(***************************************************************************)
(* MitigationAction.is_overdue and RiskPrioritizer.  The risks of a        *)
(* portfolio carry a risk_id and their actions a deadline; the clock `now` *)
(* is what datetime.now() returns.                                         *)
(***************************************************************************)
DatedAction(status, expected_risk_reduction, deadline) ==
    [status                  |-> status,
     expected_risk_reduction |-> expected_risk_reduction,
     deadline                |-> deadline]

PortfolioRisk(risk_id, likelihood, impact, mitigation_actions, affected_processes, risk_appetite_exceeded) ==
    [risk_id                |-> risk_id,
     likelihood             |-> likelihood,
     impact                 |-> impact,
     existing_controls      |-> <<>>,
     mitigation_actions     |-> mitigation_actions,
     affected_processes     |-> affected_processes,
     risk_appetite_exceeded |-> risk_appetite_exceeded]

\* is_overdue that also exempts Cancelled actions
is_overdue_ExemptCancelled(a, clock) ==
    clock > a.deadline /\ a.status \notin {"Completed", "Cancelled"}

\* datetime.now() > self.deadline and self.status != ActionStatus.COMPLETED
is_overdue(a, clock) == clock > a.deadline /\ a.status # "Completed"

\* the tuple of priority_score(risk) before the signs are applied;
\* mitigation_gap is the float 100 - get_mitigation_effectiveness()
priority_score(r) ==
    [residual_score    |-> calculate_residual_risk_score(r),
     appetite_exceeded |-> IF r.risk_appetite_exceeded THEN 1 ELSE 0,
     process_impact    |-> Len(r.affected_processes),
     mitigation_gap    |-> FloatSub(Float100, get_mitigation_effectiveness(r))]

\* KeyLess without the appetite component
KeyLess_NoAppetite(a, b) ==
    IF a.residual_score # b.residual_score
    THEN -a.residual_score < -b.residual_score
    ELSE IF a.process_impact # b.process_impact
    THEN -a.process_impact < -b.process_impact
    ELSE FloatLess(b.mitigation_gap, a.mitigation_gap)

\* Python's tuple order on (-residual_score, -appetite_exceeded,
\* -process_impact, -mitigation_gap): decided by the first differing item
KeyLess(a, b) ==
    IF a.residual_score # b.residual_score
    THEN -a.residual_score < -b.residual_score
    ELSE IF a.appetite_exceeded # b.appetite_exceeded
    THEN -a.appetite_exceeded < -b.appetite_exceeded
    ELSE IF a.process_impact # b.process_impact
    THEN -a.process_impact < -b.process_impact
    ELSE FloatLess(b.mitigation_gap, a.mitigation_gap)

\* sorted(): position i goes in front of the first position whose key is
\* greater, behind every position whose key is equal (the sort is stable)
RECURSIVE InsertIndex(_, _, _)
InsertIndex(done, i, keys) ==
    IF done = <<>> THEN <<i>>
    ELSE IF KeyLess(keys[i], keys[Head(done)]) THEN <<i>> \o done
    ELSE <<Head(done)>> \o InsertIndex(Tail(done), i, keys)

RECURSIVE SortedIndices(_, _)
SortedIndices(n, keys) ==
    IF n = 0 THEN <<>>
    ELSE InsertIndex(SortedIndices(n - 1, keys), n, keys)

\* the key of every item, computed once as sorted() does
RECURSIVE PriorityScores(_)
PriorityScores(rs) ==
    IF rs = <<>> THEN <<>>
    ELSE <<priority_score(Head(rs))>> \o PriorityScores(Tail(rs))

\* sorted(risks, key=priority_score): a new list
prioritize_risks(rs) ==
    LET order == SortedIndices(Len(rs), PriorityScores(rs))
    IN  [k \in 1..Len(rs) |-> rs[order[k]]]

\* the items of rs whose flag is set, in the order of rs
RECURSIVE Pick(_, _, _)
Pick(rs, keep, i) ==
    IF i > Len(rs) THEN <<>>
    ELSE (IF keep[i] THEN <<rs[i]>> ELSE <<>>) \o Pick(rs, keep, i + 1)

Categories == {"Critical", "High", "Medium", "Low", "Acceptable"}

\* Bucket without the key 'Low'
Bucket_NoLow(level) ==
    IF level \in Categories \ {"Low"} THEN level ELSE "Acceptable"

\* `if level in categories: ... else: categories['Acceptable']`
Bucket(level) == IF level \in Categories THEN level ELSE "Acceptable"

\* the bucket of every item, in the order of the loop
RECURSIVE Buckets(_)
Buckets(rs) ==
    IF rs = <<>> THEN <<>>
    ELSE <<Bucket(get_risk_level(Head(rs)))>> \o Buckets(Tail(rs))

categorize_risks(rs) ==
    LET bucket == Buckets(rs)
    IN  [c \in Categories |->
            Pick(rs, [i \in 1..Len(rs) |-> bucket[i] = c], 1)]

\* RiskPrioritizer.__init__: the default of risk_appetite_threshold
DefaultThreshold == 12

\* EscalationCriteria that measures the score against the threshold
EscalationCriteria_ByThreshold(r, clock) ==
    \/ calculate_residual_risk_score(r) > risk_appetite_threshold
    \/ r.risk_appetite_exceeded
    \/ get_risk_level(r) = "Critical"
    \/ \E k \in 1..Len(r.mitigation_actions) :
            is_overdue(r.mitigation_actions[k], clock)

\* the condition of the loop of identify_escalation_needed
EscalationCriteria(r, clock) ==
    \/ calculate_residual_risk_score(r) >= 19
    \/ r.risk_appetite_exceeded
    \/ get_risk_level(r) = "Critical"
    \/ \E k \in 1..Len(r.mitigation_actions) :
            is_overdue(r.mitigation_actions[k], clock)

identify_escalation_needed(rs, clock) ==
    Pick(rs, [i \in 1..Len(rs) |-> EscalationCriteria(rs[i], clock)], 1)


(***************************************************************************)
(* Bounds and inputs of the scoring model.  A Risk is a plain record that  *)
(* its caller constructs; the engine has no operation that changes one.    *)
(***************************************************************************)
MaxControls == 3
MaxStrong == 5
MaxActions == 2
MaxMixedControls == 2

SeqsUpTo(S, n) == UNION {[1..k -> S] : k \in 0..n}

\* Risk(...) with the dataclass defaults for likelihood and impact
DefaultImpact == ImpactAssessment(3, 2, 2, 2)
DefaultRisk == NewRisk(3, DefaultImpact, <<>>, <<>>)

AllImpacts ==
    {ImpactAssessment(f, o, g, p) :
        f \in ImpactLevel, o \in ImpactLevel, g \in ImpactLevel, p \in ImpactLevel}

\* likelihood and impact of the risks whose lists vary
BaseInputs ==
    {<<l, ImpactAssessment(5, 5, 5, 5)>> : l \in LikelihoodLevel}
    \cup {<<1, ImpactAssessment(1, 1, 1, 1)>>, <<4, ImpactAssessment(5, 3, 2, 2)>>}

ControlInputs == {ExistingControl(e) : e \in Effectiveness}

\* n Strong controls
StrongControls(n) == [i \in 1..n |-> ExistingControl("Strong")]

\* actions of every status, with a large reduction or none
ActionInputs ==
    {MitigationAction("Completed", x) : x \in {None, 60}}
    \cup {MitigationAction(st, 60) : st \in ActionStatus \ {"Completed"}}

\* the single action of a risk that also has controls
MixedActionInputs ==
    {MitigationAction("Completed", x) : x \in {20, 30, 60}}
    \cup {MitigationAction("Planned", 60)}

RiskInputs ==
    \* every impact assessment, nothing else set
    {NewRisk(3, i, <<>>, <<>>) : i \in AllImpacts}
    \* controls only
    \cup {NewRisk(b[1], b[2], c, <<>>) :
            b \in BaseInputs, c \in SeqsUpTo(ControlInputs, MaxControls)}
    \* mitigation actions only
    \cup {NewRisk(b[1], b[2], <<>>, a) :
            b \in BaseInputs, a \in SeqsUpTo(ActionInputs, MaxActions)}
    \* a few controls and one action
    \cup {NewRisk(b[1], b[2], c, <<a>>) :
            b \in BaseInputs, c \in SeqsUpTo(ControlInputs, MaxMixedControls),
            a \in MixedActionInputs}
    \* four or more Strong controls, with one action or none
    \cup {NewRisk(b[1], b[2], StrongControls(n), a) :
            b \in BaseInputs, n \in 4..MaxStrong,
            a \in {<<>>} \cup {<<x>> : x \in MixedActionInputs}}

(***************************************************************************)
(* RRSDatabase: the tables that store_risk touches.  initialize_database   *)
(* creates them empty; every connect() opens a new connection to the one   *)
(* database file, and only one connection at a time can hold its write     *)
(* lock.                                                                   *)
(***************************************************************************)
Users == {"alice", "bob"}
StoreIds == {"R1", "R2", "R3"}

\* at most this many committed stores
MaxStores == 2

\* risk_dict: its risk_id, and whether it has every key that store_risk
\* reads with risk_dict[...]
RiskDicts == [risk_id : StoreIds, well_formed : BOOLEAN]

\* a connection is opened by store_risk or by log_audit, for one caller
Connection(user, opened_by) == [user |-> user, opened_by |-> opened_by]
NoConnection == Connection("none", "none")

IdleCall == [pc |-> "idle"]

\* fetchone() of `SELECT version FROM risks WHERE risk_id = ?`
NoRow == 0
SelectVersion(table, risk_id) ==
    IF \E row \in table : row.risk_id = risk_id
    THEN (CHOOSE row \in table : row.risk_id = risk_id).version
    ELSE NoRow

\* fetchone() of `SELECT * FROM risks WHERE risk_id = ?`
SelectRow(table, risk_id) == CHOOSE row \in table : row.risk_id = risk_id

\* CanWrite when the connections of one caller share the write lock
CanWrite_SharedByCaller(writer, connection) ==
    writer = NoConnection \/ writer.user = connection.user

\* a connection can write when no other connection holds the write lock;
\* otherwise its statement fails with "database is locked" after the timeout
CanWrite(writer, connection) ==
    writer = NoConnection \/ writer = connection

\* create_default_admin: the one row of users after initialize_database
DefaultAdmin ==
    [user_id               |-> 1,
     username              |-> "admin",
     password              |-> "admin123",
     is_active             |-> TRUE,
     failed_login_attempts |-> 0,
     account_locked        |-> FALSE]

EmptyStore ==
    /\ db_risks = {}
    /\ db_history = <<>>
    /\ db_audit = <<>>
    /\ db_writer = NoConnection
    /\ calls = [u \in Users |-> IdleCall]
    /\ db_users = <<DefaultAdmin>>
    /\ db_sessions = <<>>

(***************************************************************************)
(* Initial states                                                          *)
(***************************************************************************)
InitGraph ==
    /\ risk_graph = <<>>
    /\ frames = <<>>
    /\ path = <<>>
    /\ chains = <<>>
    /\ max_depth = 0
    /\ risk = DefaultRisk
    /\ ret = NoCall
    /\ risks = <<>>
    /\ now = 0
    /\ risk_appetite_threshold = DefaultThreshold
    /\ EmptyStore

InitRisk ==
    /\ risk_graph = <<>>
    /\ frames = <<>>
    /\ path = <<>>
    /\ chains = <<>>
    /\ max_depth = 0
    /\ risk \in RiskInputs
    /\ ret = NoCall
    /\ risks = <<>>
    /\ now = 0
    /\ risk_appetite_threshold = DefaultThreshold
    /\ EmptyStore

(***************************************************************************)
(* Operations of RiskInterdependencyEngine.  The engine is used by one     *)
(* thread: no operation starts while find_risk_chains is running.          *)
(***************************************************************************)
Idle == frames = <<>>

AddDependency(dependency) ==
    /\ Idle
    /\ GraphEdgeCount(risk_graph) < MaxEdges
    /\ risk_graph' = GraphAdd(risk_graph, dependency)
    /\ ret' = [op |-> "add_dependency", args |-> <<dependency>>]
    /\ UNCHANGED <<frames, path, chains, max_depth, risk, portfolioVars, storeVars, accountVars>>

\* GetDownstreamRisks on a graph that makes an entry for a missing key
GetDownstreamRisks_CreatesEntry(risk_id) ==
    /\ Idle
    /\ ret' = [op |-> "get_downstream_risks", args |-> <<risk_id>>,
               val |-> get_downstream_risks(risk_graph, risk_id)]
    /\ risk_graph' = IF GraphHas(risk_graph, risk_id) THEN risk_graph
                     ELSE Append(risk_graph, [key |-> risk_id, deps |-> <<>>])
    /\ UNCHANGED <<frames, path, chains, max_depth, risk, portfolioVars, storeVars, accountVars>>

GetDownstreamRisks(risk_id) ==
    /\ Idle
    /\ ret' = [op |-> "get_downstream_risks", args |-> <<risk_id>>,
               val |-> get_downstream_risks(risk_graph, risk_id)]
    /\ UNCHANGED <<graphVars, risk, portfolioVars, storeVars, accountVars>>

GetUpstreamRisks(risk_id) ==
    /\ Idle
    /\ ret' = [op |-> "get_upstream_risks", args |-> <<risk_id>>,
               val |-> get_upstream_risks(risk_graph, risk_id)]
    /\ UNCHANGED <<graphVars, risk, portfolioVars, storeVars, accountVars>>

CalculateAmplifiedImpact(risk_id, base_impact) ==
    /\ Idle
    /\ ret' = [op |-> "calculate_amplified_impact",
               args |-> <<risk_id, base_impact>>,
               val |-> calculate_amplified_impact(risk_graph, risk_id, base_impact)]
    /\ UNCHANGED <<graphVars, risk, portfolioVars, storeVars, accountVars>>

\* find_risk_chains: the call, then one step per branch of traverse
Frame(current_id, depth) ==
    [current_id |-> current_id, depth |-> depth, pc |-> "enter",
     downstream |-> <<>>, i |-> 0]

Top == frames[Len(frames)]

SetTop(frame) == [frames EXCEPT ![Len(frames)] = frame]

FindRiskChains(start_risk_id, depth_limit) ==
    /\ Idle
    /\ chains' = <<>>
    /\ path' = <<start_risk_id>>
    /\ max_depth' = depth_limit
    /\ frames' = <<Frame(start_risk_id, 0)>>
    /\ ret' = [op |-> "traverse", args |-> <<start_risk_id, depth_limit>>]
    /\ UNCHANGED <<risk_graph, risk, portfolioVars, storeVars, accountVars>>

\* the top traverse call returns; when it is the outermost one,
\* find_risk_chains returns the chains
TraverseReturn(new_chains) ==
    /\ frames' = SubSeq(frames, 1, Len(frames) - 1)
    /\ IF Len(frames) = 1
       THEN /\ ret' = [op |-> "find_risk_chains", args |-> ret.args,
                       val |-> new_chains]
            /\ chains' = <<>>
            /\ path' = <<>>
            /\ max_depth' = 0
       ELSE /\ ret' = ret
            /\ chains' = new_chains
            /\ path' = path
            /\ max_depth' = max_depth
    /\ UNCHANGED <<risk_graph, risk, portfolioVars, storeVars, accountVars>>

TraverseCutOff ==
    /\ ~Idle
    /\ Top.pc = "enter"
    /\ DepthExceeded(Top.depth, max_depth)
    /\ TraverseReturn(chains)

TraverseEndOfChain ==
    /\ ~Idle
    /\ Top.pc = "enter"
    /\ ~DepthExceeded(Top.depth, max_depth)
    /\ get_downstream_risks(risk_graph, Top.current_id) = <<>>
    /\ TraverseReturn(Append(chains, path))

TraverseExpand ==
    /\ ~Idle
    /\ Top.pc = "enter"
    /\ ~DepthExceeded(Top.depth, max_depth)
    /\ get_downstream_risks(risk_graph, Top.current_id) # <<>>
    /\ frames' = SetTop([Top EXCEPT
                            !.downstream = get_downstream_risks(risk_graph, Top.current_id),
                            !.i = 1,
                            !.pc = "loop"])
    /\ UNCHANGED <<risk_graph, path, chains, max_depth, risk, ret, portfolioVars, storeVars, accountVars>>

TraverseDescend ==
    /\ ~Idle
    /\ Top.pc = "loop"
    /\ Top.i <= Len(Top.downstream)
    /\ NotInPath(Top.downstream[Top.i], path)
    /\ path' = Append(path, Top.downstream[Top.i])
    /\ frames' = Append(SetTop([Top EXCEPT !.pc = "called"]),
                        Frame(Top.downstream[Top.i], Top.depth + 1))
    /\ UNCHANGED <<risk_graph, chains, max_depth, risk, ret, portfolioVars, storeVars, accountVars>>

TraverseSkip ==
    /\ ~Idle
    /\ Top.pc = "loop"
    /\ Top.i <= Len(Top.downstream)
    /\ ~NotInPath(Top.downstream[Top.i], path)
    /\ frames' = SetTop([Top EXCEPT !.i = @ + 1])
    /\ UNCHANGED <<risk_graph, path, chains, max_depth, risk, ret, portfolioVars, storeVars, accountVars>>

\* path.pop() after the recursive call
TraverseBacktrack ==
    /\ ~Idle
    /\ Top.pc = "called"
    /\ path' = SubSeq(path, 1, Len(path) - 1)
    /\ frames' = SetTop([Top EXCEPT !.i = @ + 1, !.pc = "loop"])
    /\ UNCHANGED <<risk_graph, chains, max_depth, risk, ret, portfolioVars, storeVars, accountVars>>

TraverseLoopEnd ==
    /\ ~Idle
    /\ Top.pc = "loop"
    /\ Top.i > Len(Top.downstream)
    /\ TraverseReturn(chains)

TraverseStep ==
    \/ TraverseCutOff
    \/ TraverseEndOfChain
    \/ TraverseExpand
    \/ TraverseDescend
    \/ TraverseSkip
    \/ TraverseBacktrack
    \/ TraverseLoopEnd

\* indirect_impacts: the downstream count of each dependency's target, summed
RECURSIVE IndirectImpacts(_, _)
IndirectImpacts(g, dependencies) ==
    IF dependencies = <<>> THEN 0
    ELSE Len(get_downstream_risks(g, Head(dependencies).target_risk_id))
            + IndirectImpacts(g, Tail(dependencies))

\* impact_counts.items(): (source_id, direct + indirect * 0.5) in dict order
ImpactCounts(g) ==
    [i \in 1..Len(g) |->
        <<g[i].key,
          FloatAdd(FloatFromInt(Len(g[i].deps)),
                   FloatMul(FloatFromInt(IndirectImpacts(g, g[i].deps)), Float0_50))>>]

\* a sort that puts an item in front of the items of equal score
ScoreInsertIndex_TiesFirst(sorted, item) ==
    Cardinality({k \in 1..Len(sorted) : FloatLess(item[2], sorted[k][2])})

\* where a stable descending sort puts the next item: behind every item
\* already placed whose score is not smaller
ScoreInsertIndex(sorted, item) ==
    Cardinality({k \in 1..Len(sorted) : ~FloatLess(sorted[k][2], item[2])})

RECURSIVE SortedByScore(_, _)
SortedByScore(sorted, items) ==
    IF items = <<>> THEN sorted
    ELSE LET n == ScoreInsertIndex(sorted, Head(items))
         IN  SortedByScore(SubSeq(sorted, 1, n) \o <<Head(items)>>
                               \o SubSeq(sorted, n + 1, Len(sorted)),
                           Tail(items))

identify_critical_risks(g) == SortedByScore(<<>>, ImpactCounts(g))

IdentifyCriticalRisks ==
    /\ Idle
    /\ ret' = [op |-> "identify_critical_risks", args |-> <<>>,
               val |-> identify_critical_risks(risk_graph)]
    /\ UNCHANGED <<graphVars, risk, portfolioVars, storeVars, accountVars>>

DependencyInputs ==
    {RiskInterdependency(s, t, k) : s \in RiskIds, t \in RiskIds, k \in EdgeKinds}

NextGraph ==
    \/ \E d \in DependencyInputs : AddDependency(d)
    \/ \E id \in RiskIds : GetDownstreamRisks(id)
    \/ \E id \in RiskIds : GetUpstreamRisks(id)
    \/ \E id \in RiskIds, b \in BaseImpactInputs : CalculateAmplifiedImpact(id, b)
    \/ IdentifyCriticalRisks
    \/ \E id \in RiskIds, d \in DepthInputs : FindRiskChains(id, d)
    \/ TraverseCutOff
    \/ TraverseEndOfChain
    \/ TraverseExpand
    \/ TraverseDescend
    \/ TraverseSkip
    \/ TraverseBacktrack
    \/ TraverseLoopEnd

SpecGraph == InitGraph /\ [][NextGraph]_vars

\* a call that has started keeps running until it returns
SpecGraphFair == SpecGraph /\ WF_vars(TraverseStep)

(***************************************************************************)
(* Operations on a Risk: the scoring methods, each a pure function of the  *)
(* risk.                                                                   *)
(***************************************************************************)
GetOverallScore ==
    /\ ret' = [op |-> "get_overall_score", val |-> get_overall_score(risk.impact)]
    /\ UNCHANGED <<graphVars, risk, portfolioVars, storeVars, accountVars>>

CalculateInherentRiskScore ==
    /\ ret' = [op |-> "calculate_inherent_risk_score",
               val |-> calculate_inherent_risk_score(risk)]
    /\ UNCHANGED <<graphVars, risk, portfolioVars, storeVars, accountVars>>

CalculateResidualRiskScore ==
    /\ ret' = [op |-> "calculate_residual_risk_score",
               val |-> calculate_residual_risk_score(risk)]
    /\ UNCHANGED <<graphVars, risk, portfolioVars, storeVars, accountVars>>

GetRiskLevel ==
    /\ ret' = [op |-> "get_risk_level", val |-> get_risk_level(risk)]
    /\ UNCHANGED <<graphVars, risk, portfolioVars, storeVars, accountVars>>

NextRisk ==
    \/ GetOverallScore
    \/ CalculateInherentRiskScore
    \/ CalculateResidualRiskScore
    \/ GetRiskLevel

SpecRisk == InitRisk /\ [][NextRisk]_vars


(***************************************************************************)
(* RiskPrioritizer on a portfolio: a list of distinct risks that the       *)
(* caller built, and the clock.  Each method is one call on the unchanged  *)
(* list.                                                                   *)
(***************************************************************************)
MaxRisks == 3

AllFive == ImpactAssessment(5, 5, 5, 5)

\* the clock at the calls, and deadlines before, at and after it
ClockAtCall == 1
PastDeadline == 0
FutureDeadline == 2

\* P1..P5 tie on the residual score 5: P1 alone exceeds the appetite, P2 has
\* more processes than P3, P3 a larger mitigation gap than P4, and P4 and P5
\* tie on the whole key; P6 is Critical, P7 is Medium
PortfolioInputs ==
    { PortfolioRisk("P1", 1, AllFive, <<>>, <<"billing">>, TRUE),
      PortfolioRisk("P2", 1, AllFive, <<>>, <<"billing", "payroll">>, FALSE),
      PortfolioRisk("P3", 1, AllFive,
                    <<DatedAction("Cancelled", 60, PastDeadline)>>,
                    <<"billing">>, FALSE),
      PortfolioRisk("P4", 1, AllFive,
                    <<DatedAction("Completed", None, PastDeadline)>>,
                    <<"billing">>, FALSE),
      PortfolioRisk("P5", 1, AllFive,
                    <<DatedAction("Completed", None, PastDeadline)>>,
                    <<"billing">>, FALSE),
      PortfolioRisk("P6", 4, AllFive,
                    <<DatedAction("Planned", 60, FutureDeadline)>>,
                    <<"billing">>, FALSE),
      PortfolioRisk("P7", 2, AllFive,
                    <<DatedAction("Overdue", 60, ClockAtCall)>>,
                    <<>>, FALSE) }

\* lists without repetition
IsInjective(seq) ==
    \A i, j \in 1..Len(seq) : seq[i] = seq[j] => i = j

PortfolioLists ==
    {rs \in SeqsUpTo(PortfolioInputs, MaxRisks) : IsInjective(rs)}

InitPortfolio ==
    /\ risk_graph = <<>>
    /\ frames = <<>>
    /\ path = <<>>
    /\ chains = <<>>
    /\ max_depth = 0
    /\ risk = DefaultRisk
    /\ ret = NoCall
    /\ risks \in PortfolioLists
    /\ now = ClockAtCall
    /\ risk_appetite_threshold = DefaultThreshold
    /\ EmptyStore

\* PrioritizeRisks sorting the caller's list in place
PrioritizeRisks_InPlace ==
    /\ ret' = [op |-> "prioritize_risks", val |-> prioritize_risks(risks)]
    /\ risks' = prioritize_risks(risks)
    /\ UNCHANGED <<graphVars, risk, now, risk_appetite_threshold, storeVars,
                   accountVars>>

PrioritizeRisks ==
    /\ ret' = [op |-> "prioritize_risks", val |-> prioritize_risks(risks)]
    /\ UNCHANGED <<graphVars, risk, portfolioVars, storeVars, accountVars>>

CategorizeRisks ==
    /\ ret' = [op |-> "categorize_risks", val |-> categorize_risks(risks)]
    /\ UNCHANGED <<graphVars, risk, portfolioVars, storeVars, accountVars>>

IdentifyEscalationNeeded ==
    /\ ret' = [op  |-> "identify_escalation_needed",
               val |-> identify_escalation_needed(risks, now)]
    /\ UNCHANGED <<graphVars, risk, portfolioVars, storeVars, accountVars>>

NextPortfolio ==
    \/ PrioritizeRisks
    \/ CategorizeRisks
    \/ IdentifyEscalationNeeded

SpecPortfolio == InitPortfolio /\ [][NextPortfolio]_vars

(***************************************************************************)
(* RiskPrioritizer instances built with different thresholds and called on *)
(* one list.                                                               *)
(***************************************************************************)
MaxThresholdRisks == 2

ThresholdInputs == {0, DefaultThreshold, 25}

ThresholdLists == {rs \in PortfolioLists : Len(rs) <= MaxThresholdRisks}

InitPrioritizer ==
    /\ risk_graph = <<>>
    /\ frames = <<>>
    /\ path = <<>>
    /\ chains = <<>>
    /\ max_depth = 0
    /\ risk = DefaultRisk
    /\ ret = NoCall
    /\ risks \in ThresholdLists
    /\ now = ClockAtCall
    /\ risk_appetite_threshold \in ThresholdInputs
    /\ EmptyStore

\* RiskPrioritizer(threshold): the next calls go to a new instance
NewRiskPrioritizer(threshold) ==
    /\ risk_appetite_threshold' = threshold
    /\ UNCHANGED <<graphVars, risk, ret, risks, now, storeVars, accountVars>>

NextPrioritizer ==
    \/ \E threshold \in ThresholdInputs : NewRiskPrioritizer(threshold)
    \/ PrioritizeRisks
    \/ CategorizeRisks
    \/ IdentifyEscalationNeeded

SpecPrioritizer == InitPrioritizer /\ [][NextPrioritizer]_vars


(***************************************************************************)
(* needs_mitigation and get_mitigation_effectiveness on one risk whose     *)
(* appetite flag, mitigation actions and controls vary.                    *)
(***************************************************************************)
MitigationControls ==
    {<<>>, <<ExistingControl("Moderate")>>, <<ExistingControl("Strong")>>}

MitigationInputs ==
    {[NewRisk(l, AllFive, c, a) EXCEPT !.risk_appetite_exceeded = x] :
        l \in LikelihoodLevel, c \in MitigationControls,
        a \in SeqsUpTo(ActionInputs, MaxActions), x \in BOOLEAN}

InitMitigation ==
    /\ risk_graph = <<>>
    /\ frames = <<>>
    /\ path = <<>>
    /\ chains = <<>>
    /\ max_depth = 0
    /\ risk \in MitigationInputs
    /\ ret = NoCall
    /\ risks = <<>>
    /\ now = 0
    /\ risk_appetite_threshold = DefaultThreshold
    /\ EmptyStore

NeedsMitigation ==
    /\ ret' = [op |-> "needs_mitigation", val |-> needs_mitigation(risk)]
    /\ UNCHANGED <<graphVars, risk, portfolioVars, storeVars, accountVars>>

GetMitigationEffectiveness ==
    /\ ret' = [op  |-> "get_mitigation_effectiveness",
               val |-> get_mitigation_effectiveness(risk)]
    /\ UNCHANGED <<graphVars, risk, portfolioVars, storeVars, accountVars>>

NextMitigation ==
    \/ NeedsMitigation
    \/ GetMitigationEffectiveness

SpecMitigation == InitMitigation /\ [][NextMitigation]_vars


(***************************************************************************)
(* Every scoring and ranking method together: the methods of Risk on one   *)
(* risk of a portfolio and the methods of RiskPrioritizer on the list, in  *)
(* any order.                                                              *)
(***************************************************************************)
\* an appetite-exceeded Low risk, a Low risk with a past-deadline Cancelled
\* action and a Critical risk with a Planned action
ScoringPortfolio ==
    {r \in PortfolioInputs : r.risk_id \in {"P1", "P3", "P6"}}

\* the orders in which the caller can list them
ScoringLists ==
    {rs \in [1..Cardinality(ScoringPortfolio) -> ScoringPortfolio] :
        IsInjective(rs)}

InitScoring ==
    /\ risk_graph = <<>>
    /\ frames = <<>>
    /\ path = <<>>
    /\ chains = <<>>
    /\ max_depth = 0
    /\ risks \in ScoringLists
    /\ risk \in {risks[i] : i \in 1..Len(risks)}
    /\ ret = NoCall
    /\ now = ClockAtCall
    /\ risk_appetite_threshold = DefaultThreshold
    /\ EmptyStore

NextScoring ==
    \/ NextRisk
    \/ NextMitigation
    \/ NextPortfolio

SpecScoring == InitScoring /\ [][NextScoring]_vars


(***************************************************************************)
(* RRSDatabase.store_risk, in the three steps between which another call   *)
(* could run: the SELECT of the stored version, the writes in the          *)
(* transaction of the call's own connection, and log_audit on a second     *)
(* connection followed by commit, or by rollback when anything raised.     *)
(***************************************************************************)
InitStore ==
    /\ risk_graph = <<>>
    /\ frames = <<>>
    /\ path = <<>>
    /\ chains = <<>>
    /\ max_depth = 0
    /\ risk = DefaultRisk
    /\ ret = NoCall
    /\ risks = <<>>
    /\ now = 0
    /\ risk_appetite_threshold = DefaultThreshold
    /\ EmptyStore

StoreRiskReturn(u, value) ==
    [op   |-> "store_risk",
     args |-> <<calls[u].risk_dict, u>>,
     val  |-> value]

\* connect(), then `SELECT version FROM risks WHERE risk_id = ?`
StoreRiskSelect(u, risk_dict) ==
    /\ calls[u].pc = "idle"
    /\ Len(db_audit) < MaxStores
    /\ calls' = [calls EXCEPT ![u] =
            [pc        |-> "selected",
             risk_dict |-> risk_dict,
             existing  |-> SelectVersion(db_risks, risk_dict.risk_id)]]
    /\ UNCHANGED <<graphVars, risk, ret, portfolioVars, accountVars,
                   db_risks, db_history, db_audit, db_writer>>

\* the branch `if existing: ... else: ...`: the history row and the UPDATE,
\* or the INSERT, in the transaction of the call's connection.  A missing
\* key of risk_dict, a write lock held by another connection or a risk_id
\* inserted meanwhile raises: rollback, return False.
StoreRiskWrite(u) ==
    LET call    == calls[u]
        risk_id == call.risk_dict.risk_id
        raises  ==
            \/ ~call.risk_dict.well_formed
            \/ ~CanWrite(db_writer, Connection(u, "store_risk"))
            \/ call.existing = NoRow /\ SelectVersion(db_risks, risk_id) # NoRow
    IN  /\ call.pc = "selected"
        /\ IF raises
           THEN /\ calls' = [calls EXCEPT ![u] = IdleCall]
                /\ ret' = StoreRiskReturn(u, FALSE)
                /\ UNCHANGED db_writer
           ELSE /\ calls' = [calls EXCEPT ![u] =
                        [pc        |-> "written",
                         risk_dict |-> call.risk_dict,
                         existing  |-> call.existing,
                         history_rows |->
                            IF call.existing = NoRow THEN <<>>
                            ELSE <<[risk_id    |-> risk_id,
                                    version    |-> call.existing,
                                    risk_data  |-> SelectRow(db_risks, risk_id),
                                    changed_by |-> u]>>,
                         risk_row |->
                            IF call.existing = NoRow
                            THEN [risk_id         |-> risk_id,
                                  version         |-> 1,
                                  created_by      |-> u,
                                  last_updated_by |-> u]
                            ELSE [SelectRow(db_risks, risk_id) EXCEPT
                                    !.version = call.existing + 1,
                                    !.last_updated_by = u]]]
                /\ db_writer' = Connection(u, "store_risk")
                /\ UNCHANGED ret
        /\ UNCHANGED <<graphVars, risk, portfolioVars, accountVars,
                       db_risks, db_history, db_audit>>

\* StoreRiskLogAudit that commits the transaction although log_audit raised
StoreRiskLogAudit_NoRollback(u) ==
    LET call == calls[u]
    IN  /\ call.pc = "written"
        /\ db_audit' =
                IF CanWrite(db_writer, Connection(u, "log_audit"))
                THEN Append(db_audit,
                        [username    |-> u,
                         action      |-> IF call.existing = NoRow
                                         THEN "CREATE" ELSE "UPDATE",
                         entity_type |-> "RISK",
                         entity_id   |-> call.risk_dict.risk_id])
                ELSE db_audit
        /\ db_history' = db_history \o call.history_rows
        /\ db_risks' =
                {row \in db_risks : row.risk_id # call.risk_dict.risk_id}
                \cup {call.risk_row}
        /\ ret' = StoreRiskReturn(u, CanWrite(db_writer, Connection(u, "log_audit")))
        /\ db_writer' = NoConnection
        /\ calls' = [calls EXCEPT ![u] = IdleCall]
        /\ UNCHANGED <<graphVars, risk, portfolioVars, accountVars>>

\* log_audit on a connection of its own, which commits the audit row by
\* itself; then conn.commit().  When log_audit cannot take the write lock it
\* raises after the timeout: rollback, return False.
StoreRiskLogAudit(u) ==
    LET call == calls[u]
    IN  /\ call.pc = "written"
        /\ IF CanWrite(db_writer, Connection(u, "log_audit"))
           THEN /\ db_audit' = Append(db_audit,
                        [username    |-> u,
                         action      |-> IF call.existing = NoRow
                                         THEN "CREATE" ELSE "UPDATE",
                         entity_type |-> "RISK",
                         entity_id   |-> call.risk_dict.risk_id])
                /\ db_history' = db_history \o call.history_rows
                /\ db_risks' =
                        {row \in db_risks :
                            row.risk_id # call.risk_dict.risk_id}
                        \cup {call.risk_row}
                /\ ret' = StoreRiskReturn(u, TRUE)
           ELSE /\ ret' = StoreRiskReturn(u, FALSE)
                /\ UNCHANGED <<db_risks, db_history, db_audit>>
        /\ db_writer' = NoConnection
        /\ calls' = [calls EXCEPT ![u] = IdleCall]
        /\ UNCHANGED <<graphVars, risk, portfolioVars, accountVars>>

\* one call at a time: a call starts only while no other call is running
StoreRiskAlone(u, risk_dict) ==
    /\ \A v \in Users \ {u} : calls[v].pc = "idle"
    /\ StoreRiskSelect(u, risk_dict)

NextStoreSequential ==
    \/ \E u \in Users, risk_dict \in RiskDicts : StoreRiskAlone(u, risk_dict)
    \/ \E u \in Users : StoreRiskWrite(u)
    \/ \E u \in Users : StoreRiskLogAudit(u)

SpecStoreSequential == InitStore /\ [][NextStoreSequential]_vars

(***************************************************************************)
(* The risk form of the dashboard: on Save it builds risk_dict from the    *)
(* sliders and derives risk_level from residual_score, which it sets to    *)
(* likelihood * overall impact.                                            *)
(***************************************************************************)
\* the form's tier with Critical starting at 20
FormRiskLevel_From20(residual_score) ==
    IF residual_score >= 20 THEN "Critical"
    ELSE IF residual_score >= 13 THEN "High"
    ELSE IF residual_score >= 7 THEN "Medium"
    ELSE "Low"

\* the if/elif chain on risk_dict['residual_score']
FormRiskLevel(residual_score) ==
    IF residual_score >= 19 THEN "Critical"
    ELSE IF residual_score >= 13 THEN "High"
    ELSE IF residual_score >= 7 THEN "Medium"
    ELSE "Low"

\* the residual scores of the 5 x 5 matrix, and 0
ScoreInputs == 0..25

\* the slider positions: a likelihood, and the four impacts set alike
FormRisks ==
    {NewRisk(l, ImpactAssessment(i, i, i, i), <<>>, <<>>) :
        l \in LikelihoodLevel, i \in ImpactLevel}

InitForm ==
    /\ risk_graph = <<>>
    /\ frames = <<>>
    /\ path = <<>>
    /\ chains = <<>>
    /\ max_depth = 0
    /\ risk \in FormRisks
    /\ ret = NoCall
    /\ risks = <<>>
    /\ now = 0
    /\ risk_appetite_threshold = DefaultThreshold
    /\ EmptyStore

\* Save Risk: the keys of risk_dict that the tier depends on
ShowRiskForm ==
    LET residual_score == risk.likelihood * get_overall_score(risk.impact)
    IN  /\ ret' = [op  |-> "show_risk_form",
                   val |-> [residual_score |-> residual_score,
                            risk_level     |-> FormRiskLevel(residual_score)]]
        /\ UNCHANGED <<graphVars, risk, portfolioVars, storeVars, accountVars>>

\* the two tier rules applied to one score: the form's chain, and the
\* chain of Risk.get_risk_level
RiskLevels(score) ==
    /\ ret' = [op   |-> "risk_levels",
               args |-> <<score>>,
               val  |-> [form |-> FormRiskLevel(score), engine |-> RiskLevelOf(score)]]
    /\ UNCHANGED <<graphVars, risk, portfolioVars, storeVars, accountVars>>

NextForm ==
    \/ ShowRiskForm
    \/ GetRiskLevel
    \/ \E score \in ScoreInputs : RiskLevels(score)

SpecForm == InitForm /\ [][NextForm]_vars

(***************************************************************************)
(* store_risk called by several users at once, on a database file that may *)
(* hold rows already: initialize_database keeps the tables it finds.       *)
(***************************************************************************)
InitialVersions == {0, 1, 2}

\* a row of risks at the given version, and the rows of risk_history that
\* its earlier versions left
StoredRisk(risk_id, version) ==
    [risk_id         |-> risk_id,
     version         |-> version,
     created_by      |-> "alice",
     last_updated_by |-> "alice"]

ArchivedRows(risk_id, version) ==
    [k \in 1..(version - 1) |->
        [risk_id    |-> risk_id,
         version    |-> k,
         risk_data  |-> StoredRisk(risk_id, k),
         changed_by |-> "alice"]]

InitStoreConcurrent ==
    /\ risk_graph = <<>>
    /\ frames = <<>>
    /\ path = <<>>
    /\ chains = <<>>
    /\ max_depth = 0
    /\ risk = DefaultRisk
    /\ ret = NoCall
    /\ risks = <<>>
    /\ now = 0
    /\ risk_appetite_threshold = DefaultThreshold
    /\ \E version \in InitialVersions :
            /\ db_risks = IF version = 0 THEN {} ELSE {StoredRisk("R1", version)}
            /\ db_history = IF version = 0 THEN <<>> ELSE ArchivedRows("R1", version)
    /\ db_audit = <<>>
    /\ db_writer = NoConnection
    /\ calls = [u \in Users |-> IdleCall]
    /\ db_users = <<DefaultAdmin>>
    /\ db_sessions = <<>>

NextStoreConcurrent ==
    \/ \E u \in Users, risk_dict \in RiskDicts : StoreRiskSelect(u, risk_dict)
    \/ \E u \in Users : StoreRiskWrite(u)
    \/ \E u \in Users : StoreRiskLogAudit(u)

SpecStoreConcurrent == InitStoreConcurrent /\ [][NextStoreConcurrent]_vars


(***************************************************************************)
(* RRSDatabase accounts: authenticate_user, the sessions, and the clock    *)
(* that datetime.now() reads (in hours).  Every method is one call on a    *)
(* connection of its own.  A call that raises between its UPDATE and its   *)
(* commit leaves its connection open, with the write lock, until the       *)
(* interpreter collects the object.                                        *)
(***************************************************************************)
UsernameInputs == {"admin", "guest"}
PasswordInputs == {"admin123", "wrong"}
UserIdInputs == {1, 2}

\* `locked = 1 if attempts >= 5 else 0`
LockoutAttempts == 5
\* `expires_at = created_at + timedelta(hours=8)`
SessionHours == 8

\* the clock advances in steps of TickHours, at most MaxTicks times
TickHours == 4
MaxTicks == 3
\* at most this many rows of sessions
MaxSessions == 1

SessionIdInputs == 1..(MaxSessions + 1)

\* what a call gives back: None, a row as a dict, a new session id, or
\* the exception it raised
ReturnedNone == [kind |-> "None"]
Raised(error) == [kind |-> "raised", error |-> error]
UserData(user) == [kind |-> "user", user_id |-> user.user_id, username |-> user.username]
SessionData(session, user) == [kind |-> "user", user_id |-> user.user_id, username |-> user.username, session_id |-> session.session_id]
SessionId(session_id) == [kind |-> "session_id", session_id |-> session_id]

\* fetchone() of `SELECT * FROM users WHERE username = ? AND is_active = 1`:
\* the position of the row, NoRow when there is none
SelectActiveUser(users, username) ==
    IF \E k \in 1..Len(users) : users[k].username = username /\ users[k].is_active
    THEN CHOOSE k \in 1..Len(users) : users[k].username = username /\ users[k].is_active
    ELSE NoRow

\* fetchone() of the JOIN of validate_session: the positions of the active
\* session row and of the row of its user, NoSession when there is none
NoSession == <<NoRow, NoRow>>
SelectSession(sessions, users, session_id) ==
    IF \E k \in 1..Len(sessions) : \E j \in 1..Len(users) :
            /\ sessions[k].session_id = session_id
            /\ sessions[k].is_active
            /\ users[j].user_id = sessions[k].user_id
    THEN CHOOSE kj \in (1..Len(sessions)) \X (1..Len(users)) :
            /\ sessions[kj[1]].session_id = session_id
            /\ sessions[kj[1]].is_active
            /\ users[kj[2]].user_id = sessions[kj[1]].user_id
    ELSE NoSession

\* `UPDATE sessions SET is_active = 0 WHERE session_id = ?`
Invalidated(sessions, session_id) ==
    [k \in 1..Len(sessions) |->
        IF sessions[k].session_id = session_id
        THEN [sessions[k] EXCEPT !.is_active = FALSE]
        ELSE sessions[k]]

InitAccount ==
    /\ risk_graph = <<>>
    /\ frames = <<>>
    /\ path = <<>>
    /\ chains = <<>>
    /\ max_depth = 0
    /\ risk = DefaultRisk
    /\ ret = NoCall
    /\ risks = <<>>
    /\ now = 0
    /\ risk_appetite_threshold = DefaultThreshold
    /\ EmptyStore

AuthenticateUser(username, password) ==
    LET conn == Connection(username, "authenticate_user")
        k    == SelectActiveUser(db_users, username)
        user == db_users[k]
        Return(value) ==
            ret' = [op |-> "authenticate_user", args |-> <<username, password>>,
                    val |-> value]
    IN  /\ IF k = NoRow \/ user.account_locked
           THEN /\ Return(ReturnedNone)
                /\ UNCHANGED <<db_users, db_audit, db_writer>>
           ELSE IF ~CanWrite(db_writer, conn)
           \* the UPDATE of either branch fails: "database is locked"
           THEN /\ Return(Raised("OperationalError"))
                /\ UNCHANGED <<db_users, db_audit, db_writer>>
           ELSE IF password = user.password
           \* UPDATE, then log_audit on a second connection, then commit
           THEN IF CanWrite(conn, Connection(username, "log_audit"))
                THEN /\ db_users' = [db_users EXCEPT ![k].failed_login_attempts = 0]
                     /\ db_audit' = Append(db_audit,
                            [username    |-> username,
                             action      |-> "LOGIN",
                             entity_type |-> "",
                             entity_id   |-> ""])
                     /\ Return(UserData(user))
                     /\ UNCHANGED db_writer
                ELSE /\ Return(Raised("OperationalError"))
                     /\ db_writer' = conn
                     /\ UNCHANGED <<db_users, db_audit>>
           ELSE LET attempts == user.failed_login_attempts + 1
                IN  /\ db_users' = [db_users EXCEPT
                            ![k].failed_login_attempts = attempts,
                            ![k].account_locked = (attempts >= LockoutAttempts)]
                    /\ Return(ReturnedNone)
                    /\ UNCHANGED <<db_audit, db_writer>>
        /\ UNCHANGED <<graphVars, risk, portfolioVars,
                       db_risks, db_history, calls, db_sessions>>

\* the connection that authenticate_user left open is collected: its
\* transaction is rolled back and the write lock released
CollectConnection ==
    /\ db_writer.opened_by = "authenticate_user"
    /\ db_writer' = NoConnection
    /\ UNCHANGED <<graphVars, risk, ret, portfolioVars,
                   db_risks, db_history, db_audit, calls, accountVars>>

CreateSession(user_id) ==
    LET session_id == Len(db_sessions) + 1
        Return(value) ==
            ret' = [op |-> "create_session", args |-> <<user_id>>, val |-> value]
    IN  /\ Len(db_sessions) < MaxSessions
        /\ IF CanWrite(db_writer, Connection("dashboard", "create_session"))
           THEN /\ db_sessions' = Append(db_sessions,
                        [session_id |-> session_id,
                         user_id    |-> user_id,
                         created_at |-> now,
                         expires_at |-> now + SessionHours,
                         is_active  |-> TRUE])
                /\ Return(SessionId(session_id))
           ELSE /\ Return(Raised("OperationalError"))
                /\ UNCHANGED db_sessions
        /\ UNCHANGED <<graphVars, risk, portfolioVars, storeVars, db_users>>

InvalidateSession(session_id) ==
    /\ IF CanWrite(db_writer, Connection("dashboard", "invalidate_session"))
       THEN /\ db_sessions' = Invalidated(db_sessions, session_id)
            /\ ret' = [op |-> "invalidate_session", args |-> <<session_id>>,
                       val |-> ReturnedNone]
       ELSE /\ ret' = [op |-> "invalidate_session", args |-> <<session_id>>,
                       val |-> Raised("OperationalError")]
            /\ UNCHANGED db_sessions
    /\ UNCHANGED <<graphVars, risk, portfolioVars, storeVars, db_users>>

ValidateSession(session_id) ==
    LET kj == SelectSession(db_sessions, db_users, session_id)
        Return(value) ==
            ret' = [op |-> "validate_session", args |-> <<session_id>>,
                    val |-> value]
    IN  /\ IF kj = NoSession
           THEN /\ Return(ReturnedNone)
                /\ UNCHANGED db_sessions
           ELSE IF now > db_sessions[kj[1]].expires_at
           \* self.invalidate_session(session_id), then return None
           THEN IF CanWrite(db_writer, Connection("dashboard", "invalidate_session"))
                THEN /\ db_sessions' = Invalidated(db_sessions, session_id)
                     /\ Return(ReturnedNone)
                ELSE /\ Return(Raised("OperationalError"))
                     /\ UNCHANGED db_sessions
           ELSE /\ Return(SessionData(db_sessions[kj[1]], db_users[kj[2]]))
                /\ UNCHANGED db_sessions
        /\ UNCHANGED <<graphVars, risk, portfolioVars, storeVars, db_users>>

\* time passes between two calls
Tick ==
    /\ now < MaxTicks * TickHours
    /\ now' = now + TickHours
    /\ UNCHANGED <<graphVars, risk, ret, risks, risk_appetite_threshold,
                   storeVars, accountVars>>

NextAccount ==
    \/ \E username \in UsernameInputs, password \in PasswordInputs :
            AuthenticateUser(username, password)
    \/ CollectConnection
    \/ \E user_id \in UserIdInputs : CreateSession(user_id)
    \/ \E session_id \in SessionIdInputs : InvalidateSession(session_id)
    \/ \E session_id \in SessionIdInputs : ValidateSession(session_id)
    \/ Tick

SpecAccount == InitAccount /\ [][NextAccount]_vars


(***************************************************************************)
(* Helpers of the properties                                               *)
(***************************************************************************)
\* every edge of the graph, source by source in dict order
GraphEdges(g) ==
    LET RECURSIVE Items(_)
        Items(i) == IF i > Len(g) THEN <<>> ELSE g[i].deps \o Items(i + 1)
    IN  Items(1)

EdgePairs(g) ==
    {<<GraphEdges(g)[i].source_risk_id, GraphEdges(g)[i].target_risk_id>> :
        i \in 1..Len(GraphEdges(g))}

\* the product of impact_multiplier over the edges into risk_id, each once
RECURSIVE MultiplierProduct(_, _)
MultiplierProduct(edges, risk_id) ==
    IF edges = <<>> THEN Float1
    ELSE FloatMul(IF Head(edges).target_risk_id = risk_id
                  THEN Head(edges).impact_multiplier ELSE Float1,
                  MultiplierProduct(Tail(edges), risk_id))

\* a cycle of length one or two
HasCycle(g) ==
    \E e1 \in EdgePairs(g), e2 \in EdgePairs(g) :
        e1[2] = e2[1] /\ e2[2] = e1[1]

IsSimplePathFrom(chain, start_risk_id, g) ==
    /\ Len(chain) >= 1
    /\ chain[1] = start_risk_id
    /\ \A i \in 1..Len(chain), j \in 1..Len(chain) : i # j => chain[i] # chain[j]
    /\ \A i \in 1..(Len(chain) - 1) : <<chain[i], chain[i + 1]>> \in EdgePairs(g)

Returned(op) == ret.op = op

\* the actions of a list that are in the given status
RECURSIVE ActionsInStatus(_, _)
ActionsInStatus(actions, status) ==
    IF actions = <<>> THEN <<>>
    ELSE (IF Head(actions).status = status THEN <<Head(actions)>> ELSE <<>>)
         \o ActionsInStatus(Tail(actions), status)

(***************************************************************************)
(* C1: add_dependency rejects an edge whose source is its target and       *)
(* leaves the graph as it was, so no graph ever holds a self-loop edge.    *)
(***************************************************************************)
C1_NoSelfLoop ==
    \A e \in EdgePairs(risk_graph) : e[1] # e[2]

(***************************************************************************)
(* C2: calculate_amplified_impact(risk_id, base_impact) is base_impact     *)
(* times the product of impact_multiplier over every edge into risk_id,    *)
(* each edge counted exactly once, also for parallel edges of one source.  *)
(* Stated for the graphs that hold no self-loop, so that it does not rest  *)
(* on C1.                                                                  *)
(***************************************************************************)
C2_AmplifiedImpactIsProduct ==
    (Returned("calculate_amplified_impact") /\ C1_NoSelfLoop) =>
        ret.val = FloatMul(ret.args[2],
                           MultiplierProduct(GraphEdges(risk_graph), ret.args[1]))

(***************************************************************************)
(* C3: on the graph whose only edges are A->B and B->A,                    *)
(* find_risk_chains(A, max_depth=5) returns a result that contains the     *)
(* chain [A, B].                                                           *)
(***************************************************************************)
C3_CycleChainReturned ==
    (/\ Returned("find_risk_chains")
     /\ ret.args = <<"A", 5>>
     /\ EdgePairs(risk_graph) = {<<"A", "B">>, <<"B", "A">>})
    => \E i \in 1..Len(ret.val) : ret.val[i] = <<"A", "B">>

(***************************************************************************)
(* C4: on every graph, cyclic ones included, every find_risk_chains call   *)
(* returns, and every chain it returns is a simple directed path of the    *)
(* graph that begins with the start id.                                    *)
(***************************************************************************)
C4_TerminatesWithSimplePaths ==
    /\ [](Returned("find_risk_chains") =>
            \A i \in 1..Len(ret.val) :
                IsSimplePathFrom(ret.val[i], ret.args[1], risk_graph))
    /\ (Returned("traverse") ~> Returned("find_risk_chains"))

C4_Witness ==
    /\ Returned("find_risk_chains")
    /\ HasCycle(risk_graph)
    /\ \E i \in 1..Len(ret.val) : Len(ret.val[i]) >= 2

(***************************************************************************)
(* C5: the residual score of a risk never exceeds its inherent score.      *)
(***************************************************************************)
C5_ResidualAtMostInherent ==
    Returned("calculate_residual_risk_score") =>
        ret.val <= calculate_inherent_risk_score(risk)

C5_Witness ==
    /\ Returned("calculate_residual_risk_score")
    /\ risk.existing_controls # <<>>
    /\ ActionsInStatus(risk.mitigation_actions, "Completed") # <<>>
    /\ ret.val < calculate_inherent_risk_score(risk)

(***************************************************************************)
(* C6: whatever the controls and the completed mitigation actions, the     *)
(* residual score is never driven to zero: it is at least 1.               *)
(***************************************************************************)
C6_ResidualAtLeastOne ==
    Returned("calculate_residual_risk_score") => ret.val >= 1

(***************************************************************************)
(* C7: get_risk_level is one of the four tiers and is fixed by the         *)
(* residual score r: Low iff r <= 6, Medium iff 7 <= r <= 12, High iff     *)
(* 13 <= r <= 18, Critical iff r >= 19.                                    *)
(***************************************************************************)
C7_TierByResidual ==
    Returned("get_risk_level") =>
        LET r == calculate_residual_risk_score(risk) IN
        /\ ret.val \in {"Low", "Medium", "High", "Critical"}
        /\ (ret.val = "Low") <=> (r <= 6)
        /\ (ret.val = "Medium") <=> (7 <= r /\ r <= 12)
        /\ (ret.val = "High") <=> (13 <= r /\ r <= 18)
        /\ (ret.val = "Critical") <=> (r >= 19)

C7_Witness ==
    /\ Returned("get_risk_level")
    /\ calculate_residual_risk_score(risk) = 19
    /\ ret.val = "Critical"

(***************************************************************************)
(* C8: get_overall_score is floor((40*financial + 25*operational +         *)
(* 20*regulatory + 15*reputational) / 100), lies in 1..5, and is k when    *)
(* all four levels are k.                                                  *)
(***************************************************************************)
C8_OverallScoreIsExactFloor ==
    Returned("get_overall_score") =>
        /\ ret.val = (40 * risk.impact.financial + 25 * risk.impact.operational
                      + 20 * risk.impact.regulatory
                      + 15 * risk.impact.reputational) \div 100
        /\ ret.val \in 1..5
        /\ \A k \in ImpactLevel :
              risk.impact = ImpactAssessment(k, k, k, k) => ret.val = k

(***************************************************************************)
(* C9: the control discount saturates at 0.60 and Weak controls add        *)
(* nothing: a risk with four or more Strong controls has the residual      *)
(* score it has with exactly four Strong controls, and a risk whose        *)
(* controls are all Weak, with no completed mitigation, keeps its inherent *)
(* score.                                                                  *)
(***************************************************************************)
C9_ControlDiscountCap ==
    Returned("calculate_residual_risk_score") =>
        /\ CountControls(risk.existing_controls, "Strong") >= 4 =>
              ret.val = calculate_residual_risk_score(
                            [risk EXCEPT !.existing_controls = StrongControls(4)])
        /\ (/\ CountControls(risk.existing_controls, "Weak")
                  = Len(risk.existing_controls)
            /\ ActionsInStatus(risk.mitigation_actions, "Completed") = <<>>) =>
              ret.val = calculate_inherent_risk_score(risk)

C9_Witness ==
    /\ Returned("calculate_residual_risk_score")
    /\ CountControls(risk.existing_controls, "Strong") >= 5
    /\ ret.val < calculate_inherent_risk_score(risk)

(***************************************************************************)
(* C10: only Completed actions discount the residual score, by             *)
(* min(0.50, S/100) for S the sum of their expected reductions (unset is   *)
(* 0): actions in any other status change nothing, and every S >= 50,      *)
(* also S > 100, gives the residual score of S = 50.                       *)
(***************************************************************************)
C10_MitigationDiscountCap ==
    Returned("calculate_residual_risk_score") =>
        LET completed == ActionsInStatus(risk.mitigation_actions, "Completed") IN
        /\ ret.val = calculate_residual_risk_score(
                         [risk EXCEPT !.mitigation_actions = completed])
        /\ SumReduction(completed) >= 50 =>
              ret.val = calculate_residual_risk_score(
                            [risk EXCEPT !.mitigation_actions =
                                <<MitigationAction("Completed", 50)>>])

C10_Witness ==
    /\ Returned("calculate_residual_risk_score")
    /\ SumReduction(ActionsInStatus(risk.mitigation_actions, "Completed")) > 100
    /\ ret.val < calculate_inherent_risk_score(risk)

\* the two capped discounts in whole percent, and the floor of the exact
\* product inherent * (1 - control_reduction) * (1 - action_reduction)
ControlPercent(r) ==
    LET raw == 15 * CountControls(r.existing_controls, "Strong")
               + 8 * CountControls(r.existing_controls, "Moderate")
    IN  IF raw > 60 THEN 60 ELSE raw

ActionPercent(r) ==
    LET raw == SumReduction(ActionsInStatus(r.mitigation_actions, "Completed"))
    IN  IF raw > 50 THEN 50 ELSE raw

ExactResidual(r) ==
    (calculate_inherent_risk_score(r)
        * (100 - ControlPercent(r)) * (100 - ActionPercent(r))) \div 10000

\* likelihood 4, impacts 5/3/2/2, one Strong control, no actions
WorkedExample ==
    NewRisk(4, ImpactAssessment(5, 3, 2, 2), <<ExistingControl("Strong")>>, <<>>)

\* C11: the residual score of every risk is the floor of
\* inherent * (1 - control_reduction) * (1 - action_reduction) with the two
\* capped discounts (so it is the inherent score when there are no controls
\* and no completed actions), and the worked example has overall impact 3,
\* inherent 12, residual 10, tier Medium and needs no mitigation.
C11_ResidualIsExactFloor ==
    /\ Returned("calculate_residual_risk_score")
            => ret.val = ExactResidual(risk)
    /\ (Returned("calculate_residual_risk_score")
            /\ risk.existing_controls = <<>>
            /\ ActionsInStatus(risk.mitigation_actions, "Completed") = <<>>)
            => ret.val = calculate_inherent_risk_score(risk)
    /\ risk = WorkedExample =>
            /\ get_overall_score(risk.impact) = 3
            /\ calculate_inherent_risk_score(risk) = 12
            /\ Returned("calculate_residual_risk_score") => ret.val = 10
            /\ Returned("get_risk_level") => ret.val = "Medium"
            /\ ~needs_mitigation(risk)

\* the position of an item in a list without repetition
PositionIn(seq, x) == CHOOSE i \in 1..Len(seq) : seq[i] = x

SeqRange(seq) == {seq[i] : i \in 1..Len(seq)}

\* effectiveness as the exact fraction completed / total (0 / 1 without
\* actions); the mitigation gap is 100 minus 100 times it
CompletedCount(r) == Len(ActionsInStatus(r.mitigation_actions, "Completed"))
TotalCount(r) ==
    IF r.mitigation_actions = <<>> THEN 1 ELSE Len(r.mitigation_actions)

\* a has a strictly larger mitigation gap than b
LargerGap(a, b) ==
    CompletedCount(a) * TotalCount(b) < CompletedCount(b) * TotalCount(a)

\* a comes strictly before b in the order (residual score descending,
\* appetite-exceeded first, more affected_processes first, larger gap first)
RanksBefore(a, b) ==
    LET ra == calculate_residual_risk_score(a)
        rb == calculate_residual_risk_score(b)
    IN  IF ra # rb THEN ra > rb
        ELSE IF a.risk_appetite_exceeded # b.risk_appetite_exceeded
        THEN a.risk_appetite_exceeded
        ELSE IF Len(a.affected_processes) # Len(b.affected_processes)
        THEN Len(a.affected_processes) > Len(b.affected_processes)
        ELSE LargerGap(a, b)

\* C12: prioritize_risks returns a permutation of its input in which no
\* item ranks strictly before an earlier one in the order (residual score
\* descending, appetite-exceeded first, more affected_processes first,
\* larger mitigation gap first), and items with equal keys keep their input
\* order.
C12_PrioritizeIsStableLexicographicSort ==
    Returned("prioritize_risks") =>
        /\ Len(ret.val) = Len(risks)
        /\ SeqRange(ret.val) = SeqRange(risks)
        /\ \A i, j \in 1..Len(ret.val) :
                i < j =>
                    /\ ~RanksBefore(ret.val[j], ret.val[i])
                    /\ ~RanksBefore(ret.val[i], ret.val[j])
                        => PositionIn(risks, ret.val[i])
                            < PositionIn(risks, ret.val[j])

\* a list (plain 5, appetite-exceeded 5, 20) came back as
\* (20, appetite-exceeded 5, plain 5)
C12_Witness ==
    /\ Returned("prioritize_risks")
    /\ Len(risks) = 3
    /\ calculate_residual_risk_score(risks[1]) = 5
    /\ calculate_residual_risk_score(risks[2]) = 5
    /\ calculate_residual_risk_score(risks[3]) = 20
    /\ ~risks[1].risk_appetite_exceeded
    /\ risks[2].risk_appetite_exceeded
    /\ ret.val = <<risks[3], risks[2], risks[1]>>

\* some action of r is past its deadline and not Completed
HasLateOpenAction(r) ==
    \E k \in 1..Len(r.mitigation_actions) :
        /\ r.mitigation_actions[k].deadline < now
        /\ r.mitigation_actions[k].status # "Completed"

\* C13: identify_escalation_needed returns, in input order and without
\* repetition, exactly the risks with a residual score of at least 19, or
\* the appetite flag set, or the tier Critical, or an action past its
\* deadline whose status is not Completed (a Cancelled one included).
C13_EscalationExactlyByCriteria ==
    Returned("identify_escalation_needed") =>
        /\ SeqRange(ret.val) =
                {r \in SeqRange(risks) :
                    \/ calculate_residual_risk_score(r) >= 19
                    \/ r.risk_appetite_exceeded
                    \/ get_risk_level(r) = "Critical"
                    \/ HasLateOpenAction(r)}
        /\ Cardinality(SeqRange(ret.val)) = Len(ret.val)
        /\ \A i, j \in 1..Len(ret.val) :
                i < j => PositionIn(risks, ret.val[i])
                            < PositionIn(risks, ret.val[j])

\* a Low risk was escalated only for its past-deadline Cancelled action,
\* after an earlier risk of the list was selected and another one was not
C13_Witness ==
    /\ Returned("identify_escalation_needed")
    /\ Len(risks) = 3
    /\ ret.val = <<risks[1], risks[3]>>
    /\ calculate_residual_risk_score(risks[3]) = 5
    /\ ~risks[3].risk_appetite_exceeded
    /\ risks[3].mitigation_actions =
            <<DatedAction("Cancelled", 60, PastDeadline)>>
    /\ risks[2].mitigation_actions =
            <<DatedAction("Completed", None, PastDeadline)>>

\* C14: categorize_risks returns a map with exactly the keys Critical,
\* High, Medium, Low and Acceptable; every input risk is in the bucket
\* named by its get_risk_level() and in no other, once, the buckets keep
\* the input order, and Acceptable is empty.
C14_CategorizePartitionsByTier ==
    Returned("categorize_risks") =>
        /\ DOMAIN ret.val = {"Critical", "High", "Medium", "Low", "Acceptable"}
        /\ \A r \in SeqRange(risks) :
                \A c \in DOMAIN ret.val :
                    r \in SeqRange(ret.val[c]) <=> c = get_risk_level(r)
        /\ \A c \in DOMAIN ret.val :
                /\ SeqRange(ret.val[c]) \subseteq SeqRange(risks)
                /\ Cardinality(SeqRange(ret.val[c])) = Len(ret.val[c])
                /\ \A i, j \in 1..Len(ret.val[c]) :
                        i < j => PositionIn(risks, ret.val[c][i])
                                    < PositionIn(risks, ret.val[c][j])
        /\ ret.val["Acceptable"] = <<>>

\* three risks of the tiers Low, Critical, Low came back as the buckets
\* Low (both, in input order) and Critical
C14_Witness ==
    /\ Returned("categorize_risks")
    /\ Len(risks) = 3
    /\ ret.val["Low"] = <<risks[1], risks[3]>>
    /\ ret.val["Critical"] = <<risks[2]>>
    /\ ret.val["High"] = <<>>
    /\ ret.val["Medium"] = <<>>

\* C15: needs_mitigation() is true exactly when the residual score is at
\* least 13 or the appetite flag is set; when the flag is not set, exactly
\* for the tiers High and Critical.
C15_NeedsMitigationIffScoreOrAppetite ==
    Returned("needs_mitigation") =>
        /\ ret.val <=> (calculate_residual_risk_score(risk) >= 13
                            \/ risk.risk_appetite_exceeded)
        /\ ~risk.risk_appetite_exceeded =>
                (ret.val <=> get_risk_level(risk) \in {"High", "Critical"})

\* a Medium risk with the residual score 12 needs mitigation because its
\* appetite flag is set
C15_Witness ==
    /\ Returned("needs_mitigation")
    /\ ret.val
    /\ risk.risk_appetite_exceeded
    /\ calculate_residual_risk_score(risk) = 12

\* the float x is the quotient num / den up to a relative error of 2^-51,
\* the bound for a division and a multiplication rounded one after the other
NearQuotient(x, num, den) ==
    LET e0   == IF x.e < 0 THEN x.e ELSE 0
        a    == BShl(BMulSmall(x.m, den), x.e - e0)
        b    == BShl(BFromInt(num), -e0)
        diff == IF BCmp(a, b) = -1 THEN BSub(b, a) ELSE BSub(a, b)
    IN  BCmp(BShl(diff, 51), b) # 1

\* C16: get_mitigation_effectiveness() is 0 for a risk without mitigation
\* actions, and otherwise 100 * completed / total up to float rounding,
\* where total counts every action (Cancelled ones too); it is never
\* above 100.
C16_EffectivenessIsCompletedShare ==
    Returned("get_mitigation_effectiveness") =>
        /\ risk.mitigation_actions = <<>> => ret.val = FloatFromInt(0)
        /\ risk.mitigation_actions # <<>> =>
                NearQuotient(ret.val,
                    100 * Len(ActionsInStatus(risk.mitigation_actions,
                                              "Completed")),
                    Len(risk.mitigation_actions))
        /\ ~FloatLess(FloatFromInt(100), ret.val)

\* one Completed and one Cancelled action: 50.0
C16_Witness ==
    /\ Returned("get_mitigation_effectiveness")
    /\ Len(risk.mitigation_actions) = 2
    /\ risk.mitigation_actions[1].status = "Completed"
    /\ risk.mitigation_actions[2].status = "Cancelled"
    /\ ret.val = FloatFromInt(50)

\* risk_id is the source or the target of some edge
OccursInEdge(g, risk_id) ==
    \E e \in EdgePairs(g) : e[1] = risk_id \/ e[2] = risk_id

IsNeighbourQuery ==
    Returned("get_downstream_risks") \/ Returned("get_upstream_risks")

\* C17: for an id that occurs in no edge, get_downstream_risks and
\* get_upstream_risks return the empty list, the graph has no entry for the
\* id afterwards, and no step that returns from one of the two queries
\* changes the graph.
C17_UnknownIdQueriesAreEmptyAndPure ==
    /\ [](IsNeighbourQuery /\ ~OccursInEdge(risk_graph, ret.args[1])
            => ret.val = <<>> /\ ~GraphHas(risk_graph, ret.args[1]))
    /\ [][IsNeighbourQuery' => risk_graph' = risk_graph]_vars

\* both edges of a full graph avoid the id whose downstream risks were asked
C17_Witness ==
    /\ Returned("get_downstream_risks")
    /\ GraphEdgeCount(risk_graph) = MaxEdges
    /\ ~OccursInEdge(risk_graph, ret.args[1])
    /\ ret.val = <<>>

\* the sources with at least one edge into risk_id: what a reverse
\* adjacency index holds for risk_id
SourcesInto(g, risk_id) == {e[1] : e \in {x \in EdgePairs(g) : x[2] = risk_id}}

\* C18: on a graph without self-loops, get_upstream_risks(risk_id) returns
\* the sources that have an edge into risk_id and no other id, each of them
\* once.
C18_UpstreamListsEachSourceOnce ==
    (Returned("get_upstream_risks") /\ C1_NoSelfLoop) =>
        /\ SeqRange(ret.val) = SourcesInto(risk_graph, ret.args[1])
        /\ Len(ret.val) = Cardinality(SourcesInto(risk_graph, ret.args[1]))

\* the stored version of risk_id, 0 when the risks table has no such row
StoredVersion(table, risk_id) ==
    IF \E row \in table : row.risk_id = risk_id
    THEN (CHOOSE row \in table : row.risk_id = risk_id).version
    ELSE 0

LinearPaths(g) ==
    {ns \in UNION {[1..(k + 1) -> RiskIds] : k \in 1..(Cardinality(RiskIds) - 1)} :
        /\ \A i, j \in 1..Len(ns) : ns[i] = ns[j] => i = j
        /\ Len(GraphEdges(g)) = Len(ns) - 1
        /\ EdgePairs(g) = {<<ns[i], ns[i + 1]>> : i \in 1..(Len(ns) - 1)}}

IsProperPrefix(chain, ns) ==
    /\ Len(chain) >= 1
    /\ Len(chain) < Len(ns)
    /\ \A i \in 1..Len(chain) : chain[i] = ns[i]

\* C21: on a linear acyclic graph n0->...->nk with k > max_depth,
\* find_risk_chains(n0, max_depth) returns a non-empty result that holds
\* the path cut off at the depth limit, a proper prefix of n0, ..., nk.
C21_CutOffBranchIsEmitted ==
    Returned("find_risk_chains") =>
        \A ns \in LinearPaths(risk_graph) :
            (ret.args[1] = ns[1] /\ Len(ns) - 1 > ret.args[2]) =>
                /\ ret.val # <<>>
                /\ \E c \in 1..Len(ret.val) : IsProperPrefix(ret.val[c], ns)

\* the outgoing list of a source, empty when the graph has no entry for it
OutgoingOf(g, s) ==
    IF \E i \in 1..Len(g) : g[i].key = s
    THEN g[CHOOSE i \in 1..Len(g) : g[i].key = s].deps
    ELSE <<>>

TargetsOf(deps) == [k \in 1..Len(deps) |-> deps[k].target_risk_id]

\* C22: every add_dependency appends its edge to the outgoing list of the
\* edge's source and leaves every other list as it was (also when an edge
\* between the same pair is already there), no other call changes any
\* list, and get_downstream_risks(s) returns the targets of the list of s
\* in the order of the list.
C22_OutgoingListsAreAppendOnly ==
    /\ [][IF ret'.op = "add_dependency"
          THEN \A s \in RiskIds :
                OutgoingOf(risk_graph', s) =
                    IF s = ret'.args[1].source_risk_id
                    THEN Append(OutgoingOf(risk_graph, s), ret'.args[1])
                    ELSE OutgoingOf(risk_graph, s)
          ELSE \A s \in RiskIds :
                OutgoingOf(risk_graph', s) = OutgoingOf(risk_graph, s)]_vars
    /\ [](Returned("get_downstream_risks") =>
            ret.val = TargetsOf(OutgoingOf(risk_graph, ret.args[1])))

\* two edges of different kinds between the same pair are both in the
\* list, and get_downstream_risks returned their target twice
C22_Witness ==
    /\ Returned("get_downstream_risks")
    /\ Len(ret.val) = 2
    /\ ret.val[1] = ret.val[2]
    /\ OutgoingOf(risk_graph, ret.args[1])[1].relationship_type = "triggers"
    /\ OutgoingOf(risk_graph, ret.args[1])[2].relationship_type = "amplifies"

\* the position of a source in the graph: the order of first-edge insertion
KeyIndex(g, s) == CHOOSE i \in 1..Len(g) : g[i].key = s

RECURSIVE SumOutCounts(_, _)
SumOutCounts(g, deps) ==
    IF deps = <<>> THEN 0
    ELSE Len(OutgoingOf(g, Head(deps).target_risk_id)) + SumOutCounts(g, Tail(deps))

\* C23: identify_critical_risks returns one pair per source that has
\* outgoing edges; the score of a source is its outgoing count plus half
\* the sum, over its outgoing edges, of the outgoing count of the edge's
\* target (a target counted once per edge); the pairs are in descending
\* score order, equal scores in the order of first-edge insertion.
C23_CriticalRisksScoredAndStablySorted ==
    Returned("identify_critical_risks") =>
        /\ {ret.val[i][1] : i \in 1..Len(ret.val)} =
               {s \in RiskIds : OutgoingOf(risk_graph, s) # <<>>}
        /\ Len(ret.val) = Cardinality({s \in RiskIds : OutgoingOf(risk_graph, s) # <<>>})
        /\ \A i \in 1..Len(ret.val) :
               LET deps == OutgoingOf(risk_graph, ret.val[i][1])
               IN  ret.val[i][2] =
                       FloatDivInt(2 * Len(deps) + SumOutCounts(risk_graph, deps), 2)
        /\ \A i, j \in 1..Len(ret.val) :
               i < j =>
                   /\ ~FloatLess(ret.val[i][2], ret.val[j][2])
                   /\ ret.val[i][2] = ret.val[j][2] =>
                          KeyIndex(risk_graph, ret.val[i][1])
                              < KeyIndex(risk_graph, ret.val[j][1])

\* two sources tie on a score that includes an indirect part
C23_Witness ==
    /\ Returned("identify_critical_risks")
    /\ Len(ret.val) = 2
    /\ ret.val[1][2] = ret.val[2][2]
    /\ ret.val[1][2] = Float1_5

PrioritizerMethods ==
    {"prioritize_risks", "categorize_risks", "identify_escalation_needed"}

\* C24: the threshold of a RiskPrioritizer has no influence on what its
\* methods return: when a method is called on a list after the same method
\* was called on it, by the same instance or by an instance built with
\* another threshold, the two calls return the same value.
C24_ThresholdHasNoInfluence ==
    [][(ret.op \in PrioritizerMethods /\ ret'.op = ret.op /\ risks' = risks)
            => ret'.val = ret.val]_vars

\* a method has returned to an instance, and the instance now in use was
\* built with another threshold under which the first risk of the list
\* scores above the threshold where before it did not
C24_Witness ==
    /\ Returned("identify_escalation_needed")
    /\ risk_appetite_threshold = 0
    /\ risks # <<>>
    /\ calculate_residual_risk_score(risks[1]) > 0
    /\ calculate_residual_risk_score(risks[1]) < DefaultThreshold
    /\ ret.val = <<>>

\* the step is a call of authenticate_user for the given username
IsLoginOf(username) ==
    /\ ret' # ret
    /\ ret'.op = "authenticate_user"
    /\ ret'.args[1] = username

\* C25: for the active account admin, a login with the right password on
\* the unlocked account returns the user and sets failed_login_attempts to
\* 0, one with a wrong password returns None and adds 1 to it; the account
\* becomes locked exactly in the step of a failed login that brings the
\* counter to 5; once it is locked it stays locked and every login
\* returns None.
C25_LoginLockout ==
    [][LET user  == db_users[1]
           after == db_users'[1]
           login == IsLoginOf(user.username)
       IN  /\ (after.account_locked # user.account_locked) =>
                /\ login
                /\ ret'.args[2] # user.password
                /\ after.account_locked
                /\ user.failed_login_attempts = LockoutAttempts - 1
           /\ after.account_locked <=> (after.failed_login_attempts >= LockoutAttempts)
           /\ (login /\ ~user.account_locked /\ ret'.args[2] = user.password) =>
                /\ ret'.val.kind = "user"
                /\ after.failed_login_attempts = 0
           /\ (login /\ ~user.account_locked /\ ret'.args[2] # user.password) =>
                /\ ret'.val = ReturnedNone
                /\ after.failed_login_attempts = user.failed_login_attempts + 1
           /\ user.account_locked =>
                /\ after.account_locked
                /\ login => ret'.val = ReturnedNone]_vars

\* the session has a row that is inactive or whose expiry has passed
IsDeadSession(sessions, clock, session_id) ==
    \E k \in 1..Len(sessions) :
        /\ sessions[k].session_id = session_id
        /\ \/ ~sessions[k].is_active
           \/ clock > sessions[k].created_at + SessionHours

RECURSIVE ArchivedVersions(_, _)
ArchivedVersions(history, risk_id) ==
    IF history = <<>> THEN <<>>
    ELSE (IF Head(history).risk_id = risk_id THEN <<Head(history).version>> ELSE <<>>)
            \o ArchivedVersions(Tail(history), risk_id)

\* the step in which the store_risk call of u returns
StoreRiskReturns(u) == calls[u].pc # "idle" /\ calls'[u].pc = "idle"

C28_StoreRiskIsAllOrNothing ==
    [][\A u \in Users :
        StoreRiskReturns(u) =>
            LET risk_id == calls[u].risk_dict.risk_id
                version == StoredVersion(db_risks, risk_id)
            IN  IF ret'.val
                THEN /\ StoredVersion(db_risks', risk_id) = version + 1
                     /\ ArchivedVersions(db_history', risk_id) =
                            ArchivedVersions(db_history, risk_id)
                                \o (IF version = 0 THEN <<>> ELSE <<version>>)
                     /\ Len(db_audit') = Len(db_audit) + 1
                     /\ db_audit'[Len(db_audit')].username = u
                     /\ db_audit'[Len(db_audit')].entity_id = risk_id
                     /\ db_audit'[Len(db_audit')].action =
                            IF version = 0 THEN "CREATE" ELSE "UPDATE"
                ELSE /\ db_risks' = db_risks
                     /\ db_history' = db_history
                     /\ db_audit' = db_audit]_vars

\* a call that had written the update of a stored risk in its transaction
\* returned False after log_audit failed, and the tables hold what they
\* held before
C28_Witness ==
    /\ Returned("store_risk")
    /\ ~ret.val
    /\ ret.args[1].well_formed
    /\ \A u \in Users : calls[u].pc = "idle"
    /\ StoredVersion(db_risks, ret.args[1].risk_id) = 2
    /\ ArchivedVersions(db_history, ret.args[1].risk_id) = <<1>>
    /\ db_audit = <<>>

\* C29: when the store_risk calls of two users on one stored risk_id
\* interleave, the stored version goes up by one in the step in which a
\* call returns True and in no other step, so the final version is the
\* initial one plus the number of successful stores, and no two rows of
\* risk_history have the same risk_id and version.
C29_NoLostUpdate ==
    /\ [][\A risk_id \in StoreIds :
            StoredVersion(db_risks', risk_id) =
                StoredVersion(db_risks, risk_id)
                    + Cardinality({u \in Users :
                            /\ StoreRiskReturns(u)
                            /\ calls[u].risk_dict.risk_id = risk_id
                            /\ ret'.val})]_vars
    /\ [](\A i, j \in 1..Len(db_history) :
            (/\ db_history[i].risk_id = db_history[j].risk_id
             /\ db_history[i].version = db_history[j].version) => i = j)

\* both users have read the version of the same stored risk, and one has
\* written its update while the other has not yet
C29_Witness ==
    /\ calls["alice"].pc = "written"
    /\ calls["bob"].pc = "selected"
    /\ calls["alice"].risk_dict.risk_id = calls["bob"].risk_dict.risk_id
    /\ calls["alice"].existing = 1
    /\ calls["bob"].existing = 1

\* C30: for every residual score in 0..25 the tier rule of the risk form
\* gives the tier that Risk.get_risk_level gives, and the risk_level the
\* form puts in risk_dict is the tier the engine derives for the risk
\* entered in the form.
C30_FormTierAgreesWithEngine ==
    /\ Returned("risk_levels") => ret.val.form = ret.val.engine
    /\ Returned("show_risk_form") =>
            /\ ret.val.residual_score = calculate_residual_risk_score(risk)
            /\ ret.val.risk_level = get_risk_level(risk)

\* the score at which Critical starts was put to both rules
C30_Witness ==
    /\ Returned("risk_levels")
    /\ ret.args[1] = 19
    /\ ret.val.form = "Critical"

====
